---- MODULE Spec2Model ----
(***************************************************************************)
(* NPS RADIUS log viewer (src/src/main.rs): the ingestion / correlation /  *)
(* query pipeline and the threads that run it.                             *)
(*                                                                         *)
(* A Rust String is a sequence of one-character strings, so that           *)
(* to_ascii_lowercase, contains, trim and cmp are computed and not assumed.*)
(* An Option<T> is a sequence of length 0 (None) or 1 (Some).              *)
(***************************************************************************)
EXTENDS Integers, Sequences, FiniteSets, TLC

VARIABLES
    \* ---- MyWindow fields (main.rs 186-217) ----
    all_items,          \* Arc<RwLock<Vec<RadiusRequest>>>
    raw_count,          \* Arc<RwLock<usize>>
    filtered_ids,       \* Arc<RwLock<Vec<usize>>>, 0-based indices
    show_errors,        \* Arc<RwLock<bool>>
    sort_col,           \* Arc<RwLock<LogColumn>>
    sort_desc,          \* Arc<RwLock<bool>>
    is_busy,            \* Arc<AtomicBool>
    current_file_path,  \* Arc<Mutex<Option<String>>>
    last_file_size,     \* Arc<Mutex<u64>>
    txt_search,         \* text of the search Edit control
    \* ---- the window's message loop ----
    owner,              \* the owner thread: "running", "waiting <row>", "stuck" or "dead"
    msg_queue,          \* messages posted to the window and not yet handled
    search_timer,       \* IDT_SEARCH_TIMER is armed
    lv_count,           \* item count of the virtual ListView (set_count)
    \* ---- threads started with thread::spawn ----
    loaders,            \* ingestion workers, in the order they were spawned
    filters,            \* query passes, in the order they were spawned
    \* ---- the world outside the process ----
    disk,               \* per path: the version of the log file on disk
    pending_notify,     \* watcher callbacks in their 500 ms sleep
    \* ---- one run of the grouping loop of parse_full_logic ----
    events_all,         \* the decoded events
    ev_next,            \* position of the loop in events_all
    groups,             \* Vec<Vec<Event>>
    class_map,          \* HashMap<String, usize>, as a set of <<key, index>>
    requests,           \* Option of the Vec<RadiusRequest> the run returns
    \* ---- one call of process_group ----
    pg_group,           \* the &[Event] it is given
    pg_next,            \* position of its loop in the group
    pg_req,             \* let mut req
    \* ---- one call of parse_full_logic on a readable, untruncated file ----
    event_blobs,        \* the fragments, each as the Option<Event> it decodes to
    parse_result,       \* Option of the value the call returns
    \* ---- the build ----
    tie_break,          \* how its sort_unstable_by leaves elements that compare equal
    \* ---- the progress reports of one call of parse_full_logic(path, Some(hwnd)) ----
    content,            \* the file: its length in bytes and where its <Event> elements end
    reader_pos,         \* reader.buffer_position() after the last fragment extracted
    last_progress,      \* let mut last_progress = 0u8
    processed_count,    \* Arc<AtomicUsize>
    decoders,           \* the threads of the rayon pool inside the map closure
    posted,             \* every wparam posted with WM_PROGRESS, in the order posted
    delivered,          \* how many of them the owner thread has handled
    progress_bar,       \* gui::ProgressBar: visible, position
    \* ---- the ListView ----
    selected            \* Option of the row that is selected

coreVars == <<all_items, raw_count, filtered_ids, show_errors, sort_col, sort_desc,
              is_busy, current_file_path, last_file_size, txt_search,
              owner, msg_queue, search_timer, lv_count, loaders, filters, disk,
              pending_notify>>
loopVars == <<events_all, ev_next, groups, class_map, requests, pg_group, pg_next, pg_req,
              event_blobs, parse_result, tie_break, content, reader_pos, last_progress,
              processed_count, decoders, posted, delivered, progress_bar, selected>>
progVars == <<content, reader_pos, last_progress, processed_count, decoders, posted,
              delivered, progress_bar>>
vars == <<coreVars, loopVars>>

-----------------------------------------------------------------------------
(* Strings *)

Digits == <<"0", "1", "2", "3", "4", "5", "6", "7", "8", "9">>
Upper == <<"A", "B", "C", "D", "E", "F", "G", "H", "I", "J", "K", "L", "M", "N", "O", "P", "Q", "R", "S", "T", "U", "V", "W", "X", "Y", "Z">>
Lower == <<"a", "b", "c", "d", "e", "f", "g", "h", "i", "j", "k", "l", "m", "n", "o", "p", "q", "r", "s", "t", "u", "v", "w", "x", "y", "z">>

\* The characters the model uses, in the order of their UTF-8 bytes: ASCII
\* characters, then a letter outside ASCII in upper and in lower case.
Alphabet == <<" ", "-", ".">> \o Digits \o <<":">> \o Upper \o Lower \o <<"É", "é">>

Ord(c) == CHOOSE i \in 1..Len(Alphabet) : Alphabet[i] = c

IsUpper(c) == \E i \in 1..Len(Upper) : Upper[i] = c

\* u8::to_ascii_lowercase
CharLower(c) == IF IsUpper(c) THEN Lower[CHOOSE i \in 1..Len(Upper) : Upper[i] = c] ELSE c

\* str::to_ascii_lowercase
to_ascii_lowercase(s) == [i \in 1..Len(s) |-> CharLower(s[i])]

\* str::contains(&str)
contains(hay, needle) ==
    \E i \in 0..(Len(hay) - Len(needle)) : SubSeq(hay, i + 1, i + Len(needle)) = needle

\* str::trim, for the ASCII space
trim(s) ==
    LET keep == {i \in 1..Len(s) : s[i] # " "}
    IN  IF keep = {} THEN <<>>
        ELSE SubSeq(s, CHOOSE i \in keep : \A j \in keep : i <= j,
                       CHOOSE i \in keep : \A j \in keep : j <= i)

\* Ord::cmp on str (byte-wise lexicographic): -1, 0 or 1
cmp(a, b) ==
    LET n == IF Len(a) < Len(b) THEN Len(a) ELSE Len(b)
        diff == {i \in 1..n : a[i] # b[i]}
    IN  IF diff = {}
        THEN IF Len(a) < Len(b) THEN -1 ELSE IF Len(a) > Len(b) THEN 1 ELSE 0
        ELSE LET i == CHOOSE i \in diff : \A j \in diff : i <= j
             IN  IF Ord(a[i]) < Ord(b[i]) THEN -1 ELSE 1

\* Option
None == <<>>
Some(x) == <<x>>
is_some(o) == o # <<>>
unwrap_or(o, d) == IF o # <<>> THEN o[1] ELSE d

-----------------------------------------------------------------------------
(* Code tables *)

STR_ACCESS_REQUEST == <<"A", "c", "c", "e", "s", "s", "-", "R", "e", "q", "u", "e", "s", "t">>
STR_ACCESS_ACCEPT == <<"A", "c", "c", "e", "s", "s", "-", "A", "c", "c", "e", "p", "t">>
STR_ACCESS_REJECT == <<"A", "c", "c", "e", "s", "s", "-", "R", "e", "j", "e", "c", "t">>
STR_ACCOUNTING_REQUEST == <<"A", "c", "c", "o", "u", "n", "t", "i", "n", "g", "-", "R", "e", "q", "u", "e", "s", "t">>
STR_ACCOUNTING_RESPONSE == <<"A", "c", "c", "o", "u", "n", "t", "i", "n", "g", "-", "R", "e", "s", "p", "o", "n", "s", "e">>
STR_ACCESS_CHALLENGE == <<"A", "c", "c", "e", "s", "s", "-", "C", "h", "a", "l", "l", "e", "n", "g", "e">>
STR_TYPE_PREFIX == <<"T", "y", "p", "e", " ">>
STR_CODE_PREFIX == <<"C", "o", "d", "e", " ">>
STR_UNKNOWN_USER == <<"U", "n", "k", "n", "o", "w", "n", " ", "U", "s", "e", "r">>

map_packet_type(code) ==
    CASE code = <<"1">> -> STR_ACCESS_REQUEST
      [] code = <<"2">> -> STR_ACCESS_ACCEPT
      [] code = <<"3">> -> STR_ACCESS_REJECT
      [] code = <<"4">> -> STR_ACCOUNTING_REQUEST
      [] code = <<"5">> -> STR_ACCOUNTING_RESPONSE
      [] code = <<"1", "1">> -> STR_ACCESS_CHALLENGE
      [] OTHER -> STR_TYPE_PREFIX \o code

\* reason_codes.json, embedded by include_str!, as a set of <<code, text>>.
REASON_MAP ==
    { << <<"0">>, <<"O", "K">> >>,
      << <<"1", "6">>, <<"B", "a", "d", " ", "p", "a", "s", "s", "w", "o", "r", "d">> >> }

map_reason(code) ==
    IF \E e \in REASON_MAP : e[1] = code
    THEN (CHOOSE e \in REASON_MAP : e[1] = code)[2]
    ELSE STR_CODE_PREFIX \o code

-----------------------------------------------------------------------------
(* Event and RadiusRequest *)

\* struct Event: every field an Option<String>
Event(ts, pt, cls, sess, user, rc) ==
    [timestamp |-> ts, packet_type |-> pt, class |-> cls, acct_session_id |-> sess,
     server |-> None, ap_ip |-> None, ap_name |-> None, client_friendly_name |-> None,
     mac |-> None, user_name |-> user, sam_account |-> None, reason_code |-> rc]

\* RadiusRequest::default()
RadiusRequest_default ==
    [timestamp |-> <<>>, req_type |-> <<>>, server |-> <<>>, ap_ip |-> <<>>,
     ap_name |-> <<>>, mac |-> <<>>, user |-> <<>>, resp_type |-> <<>>, reason |-> <<>>,
     class_id |-> <<>>, session_id |-> <<>>, bg_color |-> None]

\* `if let Some(val) = &opt { field.clone_from(val) }`
clone_from(field, opt) == IF is_some(opt) THEN opt[1] ELSE field

\* fold_event with every response replacing the recorded response-type and reason.
fold_event_overwrite(req, event) ==
    LET p_type == unwrap_or(event.packet_type, <<>>)
    IN  IF p_type = <<"1">> \/ p_type = <<"4">>
        THEN [req EXCEPT
                !.timestamp = clone_from(@, event.timestamp),
                !.session_id = clone_from(@, event.acct_session_id),
                !.server = clone_from(@, event.server),
                !.ap_ip = clone_from(@, event.ap_ip),
                !.ap_name = IF is_some(event.client_friendly_name)
                            THEN event.client_friendly_name[1]
                            ELSE clone_from(@, event.ap_name),
                !.mac = clone_from(@, event.mac),
                !.class_id = clone_from(@, event.class),
                !.req_type = map_packet_type(p_type),
                !.user = IF is_some(event.sam_account) THEN event.sam_account[1]
                         ELSE IF is_some(event.user_name) THEN event.user_name[1]
                         ELSE STR_UNKNOWN_USER]
        ELSE LET code == unwrap_or(event.reason_code, <<"0">>)
                 overwrite == TRUE
             IN  [req EXCEPT
                    !.resp_type = IF overwrite THEN map_packet_type(p_type) ELSE @,
                    !.reason = IF overwrite THEN map_reason(code) ELSE @,
                    !.bg_color = CASE p_type = <<"2">> -> Some(<<188, 255, 188>>)
                                   [] p_type = <<"3">> -> Some(<<255, 188, 188>>)
                                   [] OTHER -> @]

\* fold_event with the user-name preferred over the SAM account and the
\* NAS-identifier over the friendly name.
fold_event_generic_first(req, event) ==
    LET p_type == unwrap_or(event.packet_type, <<>>)
    IN  IF p_type = <<"1">> \/ p_type = <<"4">>
        THEN [req EXCEPT
                !.timestamp = clone_from(@, event.timestamp),
                !.session_id = clone_from(@, event.acct_session_id),
                !.server = clone_from(@, event.server),
                !.ap_ip = clone_from(@, event.ap_ip),
                !.ap_name = IF is_some(event.ap_name)
                            THEN event.ap_name[1]
                            ELSE clone_from(@, event.client_friendly_name),
                !.mac = clone_from(@, event.mac),
                !.class_id = clone_from(@, event.class),
                !.req_type = map_packet_type(p_type),
                !.user = IF is_some(event.user_name) THEN event.user_name[1]
                         ELSE IF is_some(event.sam_account) THEN event.sam_account[1]
                         ELSE STR_UNKNOWN_USER]
        ELSE LET code == unwrap_or(event.reason_code, <<"0">>)
                 overwrite == req.reason = <<>> \/ code # <<"0">>
             IN  [req EXCEPT
                    !.resp_type = IF overwrite THEN map_packet_type(p_type) ELSE @,
                    !.reason = IF overwrite THEN map_reason(code) ELSE @,
                    !.bg_color = CASE p_type = <<"2">> -> Some(<<188, 255, 188>>)
                                   [] p_type = <<"3">> -> Some(<<255, 188, 188>>)
                                   [] OTHER -> @]

\* One iteration of the loop of process_group.
fold_event(req, event) ==
    LET p_type == unwrap_or(event.packet_type, <<>>)
    IN  IF p_type = <<"1">> \/ p_type = <<"4">>
        THEN [req EXCEPT
                !.timestamp = clone_from(@, event.timestamp),
                !.session_id = clone_from(@, event.acct_session_id),
                !.server = clone_from(@, event.server),
                !.ap_ip = clone_from(@, event.ap_ip),
                !.ap_name = IF is_some(event.client_friendly_name)
                            THEN event.client_friendly_name[1]
                            ELSE clone_from(@, event.ap_name),
                !.mac = clone_from(@, event.mac),
                !.class_id = clone_from(@, event.class),
                !.req_type = map_packet_type(p_type),
                !.user = IF is_some(event.sam_account) THEN event.sam_account[1]
                         ELSE IF is_some(event.user_name) THEN event.user_name[1]
                         ELSE STR_UNKNOWN_USER]
        ELSE LET code == unwrap_or(event.reason_code, <<"0">>)
                 overwrite == req.reason = <<>> \/ code # <<"0">>
             IN  [req EXCEPT
                    !.resp_type = IF overwrite THEN map_packet_type(p_type) ELSE @,
                    !.reason = IF overwrite THEN map_reason(code) ELSE @,
                    !.bg_color = CASE p_type = <<"2">> -> Some(<<188, 255, 188>>)
                                   [] p_type = <<"3">> -> Some(<<255, 188, 188>>)
                                   [] OTHER -> @]

RECURSIVE fold_group(_, _)
fold_group(req, group) ==
    IF group = <<>> THEN req ELSE fold_group(fold_event(req, Head(group)), Tail(group))

process_group(group) == fold_group(RadiusRequest_default, group)

-----------------------------------------------------------------------------
(* parse_full_logic: grouping *)

\* ev.class.as_deref().or(ev.acct_session_id.as_deref()).filter(|s| !s.is_empty())
key_opt(ev) ==
    LET o == IF is_some(ev.class) THEN ev.class ELSE ev.acct_session_id
    IN  IF is_some(o) /\ o[1] # <<>> THEN o ELSE None

\* class_map.get(k)
map_get(m, k) == IF \E e \in m : e[1] = k THEN Some((CHOOSE e \in m : e[1] = k)[2]) ELSE None

\* One iteration of `for ev in events_all`, on st = [groups, class_map].
group_step(st, ev) ==
    LET k == key_opt(ev)
    IN  IF is_some(k)
        THEN LET idx == map_get(st.class_map, k[1])
             IN  IF is_some(idx)
                 THEN [st EXCEPT !.groups[idx[1] + 1] = Append(@, ev)]
                 ELSE [groups |-> Append(st.groups, <<ev>>),
                       class_map |-> st.class_map \cup {<<k[1], Len(st.groups)>>}]
        ELSE [st EXCEPT !.groups = Append(@, <<ev>>)]

RECURSIVE group_events(_, _)
group_events(st, evs) ==
    IF evs = <<>> THEN st ELSE group_events(group_step(st, Head(evs)), Tail(evs))

\* A decoder that stops at the first fragment it cannot decode.
RECURSIVE decode_all_until_error(_)
decode_all_until_error(blobs) ==
    IF blobs = <<>> \/ Head(blobs) = <<>> THEN <<>>
    ELSE Head(blobs) \o decode_all_until_error(Tail(blobs))

\* events_all: from_str::<Event>(&blob).ok(), flattened. A blob is the
\* Option<Event> its decoding gives.
RECURSIVE decode_all(_)
decode_all(blobs) ==
    IF blobs = <<>> THEN <<>> ELSE Head(blobs) \o decode_all(Tail(blobs))

\* A source file: it can be read or not, holds a sequence of blobs, and may end
\* inside a record (a start tag without its end tag).
\* parse_full_logic returns Err, or Ok((requests, raw_event_count)).
parse_full_logic(file) ==
    IF ~file.readable \/ file.truncated
    THEN [ok |-> FALSE, items |-> <<>>, raw |-> 0]
    ELSE IF file.blobs = <<>>
    THEN [ok |-> TRUE, items |-> <<>>, raw |-> 0]
    ELSE LET st == group_events([groups |-> <<>>, class_map |-> {}], decode_all(file.blobs))
         IN  [ok |-> TRUE,
              items |-> [i \in 1..Len(st.groups) |-> process_group(st.groups[i])],
              raw |-> Len(file.blobs)]

-----------------------------------------------------------------------------
(* Query engine *)

\* RadiusRequest::matches
matches(req, query_lower) ==
    IF query_lower = <<>> THEN TRUE
    ELSE LET check(s) == contains(to_ascii_lowercase(s), query_lower)
         IN  \/ check(req.user)
             \/ check(req.mac)
             \/ check(req.ap_ip)
             \/ check(req.ap_name)
             \/ check(req.server)
             \/ check(req.reason)
             \/ check(req.req_type)
             \/ check(req.resp_type)

\* The HashSet failed_session_ids of apply_filter_logic.
failed_session_ids(items, show_errors_only) ==
    IF show_errors_only
    THEN {items[i].session_id : i \in {j \in 1..Len(items) :
              items[j].resp_type = STR_ACCESS_REJECT /\ items[j].session_id # <<>>}}
    ELSE {}

\* filter_keeps without the test on Access-Accept and Accounting-Response.
filter_keeps_all_types(items, i, q, show_errors_only) ==
    LET item == items[i + 1]
    IN  /\ show_errors_only =>
              ~(item.session_id = <<>>
                \/ item.session_id \notin failed_session_ids(items, show_errors_only))
        /\ (q = <<>> \/ matches(item, q))

\* The closure given to filter() in apply_filter_logic, for the item at 0-based index i.
filter_keeps(items, i, q, show_errors_only) ==
    LET item == items[i + 1]
    IN  /\ show_errors_only =>
              /\ ~(item.session_id = <<>>
                   \/ item.session_id \notin failed_session_ids(items, show_errors_only))
              /\ ~(item.resp_type = STR_ACCESS_ACCEPT \/ item.resp_type = STR_ACCOUNTING_RESPONSE)
        /\ (q = <<>> \/ matches(item, q))

\* A comparator that compares the reason alone under the "Reason" key.
sort_cmp_no_fallback(a, b, col, sort_descending) ==
    LET ord == CASE col = "Timestamp" -> cmp(a.timestamp, b.timestamp)
                 [] col = "Type" -> cmp(a.req_type, b.req_type)
                 [] col = "Server" -> cmp(a.server, b.server)
                 [] col = "ApIp" -> cmp(a.ap_ip, b.ap_ip)
                 [] col = "ApName" -> cmp(a.ap_name, b.ap_name)
                 [] col = "Mac" -> cmp(a.mac, b.mac)
                 [] col = "User" -> cmp(a.user, b.user)
                 [] col = "ResponseType" -> cmp(a.resp_type, b.resp_type)
                 [] col = "Reason" -> cmp(a.reason, b.reason)
                 [] col = "Session" -> cmp(a.session_id, b.session_id)
    IN  IF sort_descending THEN 0 - ord ELSE ord

\* The comparator given to sort_unstable_by: -1, 0 or 1.
sort_cmp(a, b, col, sort_descending) ==
    LET ord == CASE col = "Timestamp" -> cmp(a.timestamp, b.timestamp)
                 [] col = "Type" -> cmp(a.req_type, b.req_type)
                 [] col = "Server" -> cmp(a.server, b.server)
                 [] col = "ApIp" -> cmp(a.ap_ip, b.ap_ip)
                 [] col = "ApName" -> cmp(a.ap_name, b.ap_name)
                 [] col = "Mac" -> cmp(a.mac, b.mac)
                 [] col = "User" -> cmp(a.user, b.user)
                 [] col = "ResponseType" -> cmp(a.resp_type, b.resp_type)
                 [] col = "Reason" ->
                      cmp(IF a.reason = <<>> THEN a.resp_type ELSE a.reason,
                          IF b.reason = <<>> THEN b.resp_type ELSE b.reason)
                 [] col = "Session" -> cmp(a.session_id, b.session_id)
    IN  IF sort_descending THEN 0 - ord ELSE ord

\* The orders in which a build's sort may leave two elements that compare
\* equal: as they came, or swapped. The library does not specify the order,
\* and it is the same each time the same input is sorted.
TieBreaks == {"kept", "swapped"}

\* Whether index a comes before index b in the sorted list, under tie order t.
sorted_before(a, b, items, col, sort_descending, t) ==
    LET c == sort_cmp(items[a + 1], items[b + 1], col, sort_descending)
    IN  c < 0 \/ (c = 0 /\ IF t = "kept" THEN a < b ELSE a > b)

\* A sort whose order of equal elements changes once an index list has been
\* published.
sort_unstable_by_reseeded(kept, items, col, sort_descending) ==
    LET t == IF filtered_ids = <<>> THEN "kept" ELSE "swapped"
    IN  CHOOSE s \in [1..Cardinality(kept) -> kept] :
            /\ \A i, j \in 1..Cardinality(kept) : i # j => s[i] # s[j]
            /\ \A i \in 1..(Cardinality(kept) - 1) :
                  sorted_before(s[i], s[i + 1], items, col, sort_descending, t)

\* A sort that leaves the kept indices as it was given them, in ascending order.
sort_unstable_by_skipped(kept, items, col, sort_descending) ==
    CHOOSE s \in [1..Cardinality(kept) -> kept] :
        \A i \in 1..(Cardinality(kept) - 1) : s[i] < s[i + 1]

\* ids.sort_unstable_by(..) on the kept indices, which it is given in
\* ascending order: the list sorted by the comparator, elements that compare
\* equal in the order of the build.
sort_unstable_by(kept, items, col, sort_descending) ==
    CHOOSE s \in [1..Cardinality(kept) -> kept] :
        /\ \A i, j \in 1..Cardinality(kept) : i # j => s[i] # s[j]
        /\ \A i \in 1..(Cardinality(kept) - 1) :
              sorted_before(s[i], s[i + 1], items, col, sort_descending, tie_break)

\* A pass that numbers the positions of the snapshot from 1.
filter_compute_one_based(items, query, show_errors_only, col, sort_descending) ==
    LET q == to_ascii_lowercase(trim(query))
        kept == {i \in 0..(Len(items) - 1) : filter_keeps(items, i, q, show_errors_only)}
    IN  {[k \in 1..Cardinality(kept) |->
             sort_unstable_by(kept, items, col, sort_descending)[k] + 1]}

\* apply_filter_logic up to `drop(items)`: the index list one pass over the
\* snapshot `items` computes, as a set of one list.
filter_compute(items, query, show_errors_only, col, sort_descending) ==
    LET q == to_ascii_lowercase(trim(query))
        kept == {i \in 0..(Len(items) - 1) : filter_keeps(items, i, q, show_errors_only)}
    IN  {sort_unstable_by(kept, items, col, sort_descending)}

-----------------------------------------------------------------------------
(* Bounds of the model and the files on disk *)

MaxLoads == 2       \* ingestion workers spawned in one run
MaxPasses == 2      \* query passes spawned by trigger_async_filter in one run
MaxVer == 2         \* versions the growing log file goes through
MaxRows == 3        \* rows of the ListView that get drawn
MaxEvents == 3      \* decoded events of one run of the grouping loop
MaxGroup == 3       \* events of the group given to one call of process_group
MaxItems == 3       \* Transactions of the Store one query pass runs on
MaxBlobs == 3       \* fragments of the file given to one call of parse_full_logic

Paths == {"a.log", "b.log"}
Folders == {"logs", "empty"}
Queries == {<<>>, <<"b", "o", "b">>}
ClickCols == {"Timestamp", "Reason"}

\* Blob i of a file, as the Option<Event> its decoding gives. a.log is an
\* append-only log; b.log holds one request and one malformed record.
LogBlob(path, i) ==
    IF path = "a.log"
    THEN CASE i = 1 -> Some(Event(Some(<<"1">>), Some(<<"1">>), Some(<<"c", "1">>),
                                  Some(<<"s", "1">>), Some(<<"B", "O", "B">>), None))
           [] i = 2 -> Some(Event(Some(<<"2">>), Some(<<"1">>), Some(<<"c", "2">>),
                                  Some(<<"s", "2">>), Some(<<"a", "l", "i", "c", "e">>), None))
           [] i = 3 -> Some(Event(Some(<<"3">>), Some(<<"3">>), Some(<<"c", "1">>),
                                  None, None, Some(<<"1", "6">>)))
           [] OTHER -> Some(Event(Some(<<Digits[(i % 10) + 1]>>), Some(<<"1">>),
                                  Some(<<"c", Digits[(i % 10) + 1]>>), None, None, None))
    ELSE CASE i = 1 -> Some(Event(Some(<<"0">>), Some(<<"4">>), None,
                                  Some(<<"s", "9">>), Some(<<"b", "o", "b", "b", "y">>), None))
           [] OTHER -> None

FileLen(path, ver) == IF path = "a.log" THEN ver ELSE 2

\* What fs::read_to_string and the extraction loop see of a file; fault is
\* "none", "unreadable" or "truncated".
ReadFile(path, ver, fault) ==
    [readable |-> fault # "unreadable", truncated |-> fault = "truncated",
     blobs |-> [i \in 1..FileLen(path, ver) |-> LogBlob(path, i)]]

Faults == {"none", "unreadable", "truncated"}

\* fs::metadata(path).len()
file_size(path, ver) == FileLen(path, ver)

-----------------------------------------------------------------------------
(* Threads *)

Idle == [kind |-> "none", pc |-> "done", path |-> "", is_append |-> FALSE,
         query |-> <<>>, show_err |-> FALSE, col |-> "Timestamp", desc |-> FALSE,
         res |-> [ok |-> FALSE, items |-> <<>>, raw |-> 0], ids |-> <<>>,
         fault |-> [p \in Paths |-> "none"]]

\* The values on_btn_open_clicked / on_btn_open_folder_clicked move into the
\* thread; is_append is cb_append.is_checked().
NewLoader(kind, path, is_append) ==
    [Idle EXCEPT !.kind = kind, !.pc = "guard", !.path = path,
                 !.is_append = (kind # "tail" /\ is_append),
                 !.query = IF kind = "tail" THEN <<>> ELSE txt_search,
                 !.show_err = (kind # "tail" /\ show_errors),
                 !.col = IF kind = "tail" THEN "Timestamp" ELSE sort_col,
                 !.desc = (kind # "tail" /\ sort_desc)]

\* A thread that has returned.
Finished(w) == Idle

InFlight(w) == w.pc # "done"

PostMessage(q, type, kind) == Append(q, [type |-> type, from |-> kind])

\* trigger_async_filter: the thread it spawns, with the values it captures.
NewFilter(query, show_err, col, desc) ==
    [pc |-> "read", query |-> query, show_err |-> show_err, col |-> col, desc |-> desc,
     ids |-> <<>>]

\* A pass that has returned; its record keeps what it was launched with.
FilterDone(f) == [f EXCEPT !.pc = "done", !.ids = <<>>]

-----------------------------------------------------------------------------
(* Initial state: MyWindow::new *)

NumDecoders == 2

\* No call of parse_full_logic is reporting progress; the bar is hidden (385).
ProgressIdle ==
    /\ content = [len |-> 0, ends |-> {}]
    /\ reader_pos = 0
    /\ last_progress = 0
    /\ processed_count = 0
    /\ decoders = [t \in 1..NumDecoders |-> [pc |-> "idle", current |-> 0]]
    /\ posted = <<>>
    /\ delivered = 0
    /\ progress_bar = [visible |-> FALSE, position |-> 0]

CoreInit ==
    /\ all_items = <<>>
    /\ raw_count = 0
    /\ filtered_ids = <<>>
    /\ show_errors = FALSE
    /\ sort_col = "Timestamp"
    /\ sort_desc = TRUE
    /\ is_busy = FALSE
    /\ current_file_path = None
    /\ last_file_size = 0
    /\ txt_search = <<>>
    /\ owner = "running"
    /\ msg_queue = <<>>
    /\ search_timer = FALSE
    /\ lv_count = 0
    /\ loaders = <<>>
    /\ filters = <<>>
    /\ disk = [p \in Paths |-> 1]
    /\ pending_notify = 0

LoopIdle ==
    /\ events_all = <<>>
    /\ ev_next = 0
    /\ groups = <<>>
    /\ class_map = {}
    /\ requests = None
    /\ pg_group = <<>>
    /\ pg_next = 0
    /\ pg_req = RadiusRequest_default
    /\ event_blobs = <<>>
    /\ parse_result = None
    /\ tie_break \in TieBreaks
    /\ ProgressIdle
    /\ selected = None

Init == CoreInit /\ LoopIdle

\* The process is gone: a panic in a window procedure, or the abort that follows.
Crash ==
    /\ all_items' = <<>>
    /\ raw_count' = 0
    /\ filtered_ids' = <<>>
    /\ show_errors' = FALSE
    /\ sort_col' = "Timestamp"
    /\ sort_desc' = TRUE
    /\ is_busy' = FALSE
    /\ current_file_path' = None
    /\ last_file_size' = 0
    /\ txt_search' = <<>>
    /\ owner' = "dead"
    /\ msg_queue' = <<>>
    /\ search_timer' = FALSE
    /\ lv_count' = 0
    /\ loaders' = <<>>
    /\ filters' = <<>>
    /\ pending_notify' = 0
    /\ UNCHANGED <<disk, loopVars>>

-----------------------------------------------------------------------------
(* Owner thread: handlers of user input *)

\* GetMessage hands out posted messages before input, paint and timer messages.
InputReady == owner = "running" /\ msg_queue = <<>>

on_btn_open_clicked(path, is_append, meta_ok) ==
    /\ InputReady
    /\ Len(loaders) < MaxLoads
    /\ IF ~is_append
       THEN /\ current_file_path' = Some(path)
            /\ last_file_size' = IF meta_ok THEN file_size(path, disk[path])
                                 ELSE last_file_size
            /\ lv_count' = 0
       ELSE /\ current_file_path' = None
            /\ UNCHANGED <<last_file_size, lv_count>>
    /\ loaders' = Append(loaders, NewLoader("file", path, is_append))
    /\ UNCHANGED <<all_items, raw_count, filtered_ids, show_errors, sort_col, sort_desc,
                   is_busy, txt_search, owner, msg_queue, search_timer,
                   filters, disk, pending_notify, loopVars>>

on_btn_open_folder_clicked(folder, is_append) ==
    /\ InputReady
    /\ Len(loaders) < MaxLoads
    /\ lv_count' = IF ~is_append THEN 0 ELSE lv_count
    /\ loaders' = Append(loaders, NewLoader("folder", folder, is_append))
    /\ UNCHANGED <<all_items, raw_count, filtered_ids, show_errors, sort_col, sort_desc,
                   is_busy, current_file_path, last_file_size, txt_search,
                   owner, msg_queue, search_timer, filters, disk, pending_notify, loopVars>>

\* A change handler that launches a pass at once, besides arming the timer.
en_change_immediate(text) ==
    /\ InputReady
    /\ text # txt_search
    /\ Len(filters) < MaxPasses
    /\ txt_search' = text
    /\ search_timer' = TRUE
    /\ filters' = Append(filters, NewFilter(text, show_errors, sort_col, sort_desc))
    /\ UNCHANGED <<all_items, raw_count, filtered_ids, show_errors, sort_col, sort_desc,
                   is_busy, current_file_path, last_file_size, owner,
                   msg_queue, lv_count, loaders, disk, pending_notify, loopVars>>

\* txt_search en_change: the text changed; (re)arm the 300 ms timer.
en_change(text) ==
    /\ InputReady
    /\ text # txt_search
    /\ Len(filters) < MaxPasses
    /\ txt_search' = text
    /\ search_timer' = TRUE
    /\ UNCHANGED <<all_items, raw_count, filtered_ids, show_errors, sort_col, sort_desc,
                   is_busy, current_file_path, last_file_size, owner,
                   msg_queue, lv_count, loaders, filters, disk, pending_notify, loopVars>>

\* wm_timer(IDT_SEARCH_TIMER): KillTimer, trigger_async_filter.
wm_timer ==
    /\ InputReady
    /\ search_timer
    /\ Len(filters) < MaxPasses
    /\ search_timer' = FALSE
    /\ filters' = Append(filters, NewFilter(txt_search, show_errors, sort_col, sort_desc))
    /\ UNCHANGED <<all_items, raw_count, filtered_ids, show_errors, sort_col, sort_desc,
                   is_busy, current_file_path, last_file_size, txt_search,
                   owner, msg_queue, lv_count, loaders, disk, pending_notify, loopVars>>

\* on_lst_lvn_column_click keeping the direction when the sort key changes.
on_lst_lvn_column_click_keep_direction(new_col) ==
    /\ InputReady
    /\ Len(filters) < MaxPasses
    /\ IF sort_col = new_col
       THEN sort_desc' = ~sort_desc /\ sort_col' = sort_col
       ELSE sort_col' = new_col /\ sort_desc' = sort_desc
    /\ filters' = Append(filters, NewFilter(txt_search, show_errors, sort_col', sort_desc'))
    /\ UNCHANGED <<all_items, raw_count, filtered_ids, show_errors, is_busy,
                   current_file_path, last_file_size, txt_search, owner,
                   msg_queue, search_timer, lv_count, loaders, disk, pending_notify, loopVars>>

on_lst_lvn_column_click(new_col) ==
    /\ InputReady
    /\ Len(filters) < MaxPasses
    /\ IF sort_col = new_col
       THEN sort_desc' = ~sort_desc /\ sort_col' = sort_col
       ELSE sort_col' = new_col /\ sort_desc' = FALSE
    /\ filters' = Append(filters, NewFilter(txt_search, show_errors, sort_col', sort_desc'))
    /\ UNCHANGED <<all_items, raw_count, filtered_ids, show_errors, is_busy,
                   current_file_path, last_file_size, txt_search, owner,
                   msg_queue, search_timer, lv_count, loaders, disk, pending_notify, loopVars>>

on_btn_rejects_clicked ==
    /\ InputReady
    /\ Len(filters) < MaxPasses
    /\ show_errors' = ~show_errors
    /\ filters' = Append(filters, NewFilter(txt_search, show_errors', sort_col, sort_desc))
    /\ UNCHANGED <<all_items, raw_count, filtered_ids, sort_col, sort_desc, is_busy,
                   current_file_path, last_file_size, txt_search, owner,
                   msg_queue, search_timer, lv_count, loaders, disk, pending_notify, loopVars>>

\* handle_file_change with `new_size >= *last_size` as its test.
handle_file_change_ge(meta_ok) ==
    IF is_some(current_file_path) /\ meta_ok
       /\ file_size(current_file_path[1], disk[current_file_path[1]]) >= last_file_size
    THEN /\ last_file_size' = file_size(current_file_path[1], disk[current_file_path[1]])
         /\ IF ~is_busy
            THEN /\ Len(loaders) < MaxLoads
                 /\ loaders' = Append(loaders, NewLoader("tail", current_file_path[1], FALSE))
            ELSE UNCHANGED loaders
    ELSE UNCHANGED <<last_file_size, loaders>>

\* handle_file_change, on what it may change; meta_ok: fs::metadata succeeded.
handle_file_change(meta_ok) ==
    IF is_some(current_file_path) /\ meta_ok
       /\ file_size(current_file_path[1], disk[current_file_path[1]]) > last_file_size
    THEN /\ last_file_size' = file_size(current_file_path[1], disk[current_file_path[1]])
         /\ IF ~is_busy
            THEN /\ Len(loaders) < MaxLoads
                 /\ loaders' = Append(loaders, NewLoader("tail", current_file_path[1], FALSE))
            ELSE UNCHANGED loaders
    ELSE UNCHANGED <<last_file_size, loaders>>

\* wm_key_down, VK_F5: the handler holds the guard of current_file_path while it
\* calls handle_file_change, which locks current_file_path again. Mutex::lock on
\* a mutex the thread already holds never returns: it deadlocks or panics.
wm_key_down_F5 ==
    /\ InputReady
    /\ IF is_some(current_file_path)
       THEN \/ /\ last_file_size' = 0
               /\ owner' = "stuck"
               /\ UNCHANGED <<all_items, raw_count, filtered_ids, show_errors, sort_col,
                              sort_desc, is_busy, current_file_path, txt_search,
                              msg_queue, search_timer, lv_count, loaders,
                              filters, disk, pending_notify, loopVars>>
            \/ Crash
       ELSE UNCHANGED vars

\* on_lst_nm_custom_draw for the row dwItemSpec: items[idx] panics when idx is
\* not a position of all_items.
on_lst_nm_custom_draw(row) ==
    /\ InputReady
    /\ row < lv_count
    /\ IF row < Len(filtered_ids) /\ filtered_ids[row + 1] >= Len(all_items)
       THEN Crash
       ELSE UNCHANGED vars

-----------------------------------------------------------------------------
(* Owner thread: handlers of posted messages *)

HeadIs(type) == owner = "running" /\ msg_queue # <<>> /\ Head(msg_queue).type = type

wm_LOAD_DONE ==
    /\ HeadIs("WM_LOAD_DONE")
    /\ msg_queue' = Tail(msg_queue)
    /\ lv_count' = Len(filtered_ids)
    /\ UNCHANGED <<all_items, raw_count, filtered_ids, show_errors, sort_col, sort_desc,
                   is_busy, current_file_path, last_file_size, txt_search,
                   owner, search_timer, loaders, filters, disk, pending_notify, loopVars>>

wm_LOAD_ERROR ==
    /\ HeadIs("WM_LOAD_ERROR")
    /\ Len(filters) < MaxPasses
    /\ msg_queue' = Tail(msg_queue)
    /\ is_busy' = FALSE
    /\ filters' = Append(filters, NewFilter(txt_search, show_errors, sort_col, sort_desc))
    /\ UNCHANGED <<all_items, raw_count, filtered_ids, show_errors, sort_col, sort_desc,
                   current_file_path, last_file_size, txt_search, owner,
                   search_timer, lv_count, loaders, disk, pending_notify, loopVars>>

wm_FILTER_DONE ==
    /\ HeadIs("WM_FILTER_DONE")
    /\ msg_queue' = Tail(msg_queue)
    /\ lv_count' = Len(filtered_ids)
    /\ UNCHANGED <<all_items, raw_count, filtered_ids, show_errors, sort_col, sort_desc,
                   is_busy, current_file_path, last_file_size, txt_search,
                   owner, search_timer, loaders, filters, disk, pending_notify, loopVars>>

wm_FILE_CHANGED(meta_ok) ==
    /\ HeadIs("WM_FILE_CHANGED")
    /\ msg_queue' = Tail(msg_queue)
    /\ handle_file_change(meta_ok)
    /\ UNCHANGED <<all_items, raw_count, filtered_ids, show_errors, sort_col, sort_desc,
                   is_busy, current_file_path, txt_search, owner,
                   search_timer, lv_count, filters, disk, pending_notify, loopVars>>

-----------------------------------------------------------------------------
(* Ingestion workers: the closures given to thread::spawn *)

At(i, pc) == i \in 1..Len(loaders) /\ loaders[i].pc = pc

\* A synchronous SendMessage returns once the owner thread has handled it.
SendMessage == owner = "running"

\* BusyGuard::new
BusyGuard_new(i) ==
    /\ At(i, "guard")
    /\ is_busy' = TRUE
    /\ loaders' = [loaders EXCEPT ![i].pc = "parse"]
    /\ UNCHANGED <<all_items, raw_count, filtered_ids, show_errors, sort_col, sort_desc,
                   current_file_path, last_file_size, txt_search, owner,
                   msg_queue, search_timer, lv_count, filters, disk, pending_notify, loopVars>>

\* The *.log files of the folder, sorted by modification time: b.log is the
\* older file. The folder "empty" holds no *.log file.
FolderFiles(folder) == IF folder = "logs" THEN <<"b.log", "a.log">> ELSE <<>>

\* The loop over the files of the folder: what total_items and total_raw_count end as.
RECURSIVE folder_totals(_, _, _, _)
folder_totals(files, versions, faults, acc) ==
    IF files = <<>> THEN acc
    ELSE LET r == parse_full_logic(ReadFile(Head(files), versions[Head(files)], faults[Head(files)]))
         IN  folder_totals(Tail(files), versions, faults,
                 IF r.ok THEN [ok |-> TRUE, items |-> acc.items \o r.items, raw |-> acc.raw + r.raw]
                 ELSE acc)

\* SendMessage(WM_FORCE_WAIT), then parse_full_logic on the file as it is now.
\* The read outcomes of the files of a folder; a file that is not in the
\* folder is not read.
FolderFaults(folder) ==
    {f \in [Paths -> Faults] :
        \A p \in Paths :
            (\A k \in 1..Len(FolderFiles(folder)) : FolderFiles(folder)[k] # p) => f[p] = "none"}

LoaderParse(i) ==
    /\ At(i, "parse")
    /\ SendMessage
    /\ \/ /\ loaders[i].kind # "folder"
          /\ \E fault \in Faults :
                LET r == parse_full_logic(ReadFile(loaders[i].path, disk[loaders[i].path], fault))
                IN  loaders' = [loaders EXCEPT
                        ![i].res = r,
                        ![i].fault = [p \in Paths |->
                                        IF p = loaders[i].path THEN fault ELSE "none"],
                        ![i].pc = IF ~r.ok THEN "drop"
                                  ELSE IF loaders[i].kind = "tail" THEN "write_store"
                                  ELSE "write_items"]
       \/ /\ loaders[i].kind = "folder"
          /\ \E faults \in FolderFaults(loaders[i].path) :
                LET r == folder_totals(FolderFiles(loaders[i].path), disk, faults, [ok |-> TRUE, items |-> <<>>, raw |-> 0])
                IN  loaders' = [loaders EXCEPT
                        ![i].res = r,
                        ![i].fault = faults,
                        ![i].pc = IF r.items # <<>> THEN "write_items" ELSE "drop"]
    /\ UNCHANGED <<all_items, raw_count, filtered_ids, show_errors, sort_col, sort_desc,
                   is_busy, current_file_path, last_file_size, txt_search,
                   owner, msg_queue, search_timer, lv_count, filters, disk, pending_notify, loopVars>>

\* on_btn_open_clicked 974-977, on_btn_open_folder_clicked 1090-1093
LoaderWriteItems(i) ==
    /\ At(i, "write_items")
    /\ all_items' = IF loaders[i].is_append THEN all_items \o loaders[i].res.items
                    ELSE loaders[i].res.items
    /\ loaders' = [loaders EXCEPT ![i].pc = "write_raw"]
    /\ UNCHANGED <<raw_count, filtered_ids, show_errors, sort_col, sort_desc, is_busy,
                   current_file_path, last_file_size, txt_search, owner,
                   msg_queue, search_timer, lv_count, filters, disk, pending_notify, loopVars>>

\* on_btn_open_clicked 978-981, on_btn_open_folder_clicked 1094-1097
LoaderWriteRaw(i) ==
    /\ At(i, "write_raw")
    /\ raw_count' = IF loaders[i].is_append THEN raw_count + loaders[i].res.raw
                    ELSE loaders[i].res.raw
    /\ loaders' = [loaders EXCEPT ![i].pc = "filter_read"]
    /\ UNCHANGED <<all_items, filtered_ids, show_errors, sort_col, sort_desc, is_busy,
                   current_file_path, last_file_size, txt_search, owner,
                   msg_queue, search_timer, lv_count, filters, disk, pending_notify, loopVars>>

\* handle_file_change 787-792: both write guards are held together.
LoaderWriteStore(i) ==
    /\ At(i, "write_store")
    /\ all_items' = loaders[i].res.items
    /\ raw_count' = loaders[i].res.raw
    /\ loaders' = [loaders EXCEPT ![i].pc = "drop"]
    /\ UNCHANGED <<filtered_ids, show_errors, sort_col, sort_desc, is_busy,
                   current_file_path, last_file_size, txt_search, owner,
                   msg_queue, search_timer, lv_count, filters, disk, pending_notify, loopVars>>

\* apply_filter_logic called by the worker, under the read lock of all_items.
LoaderFilterRead(i) ==
    /\ At(i, "filter_read")
    /\ \E ids \in filter_compute(all_items, loaders[i].query, loaders[i].show_err,
                                 loaders[i].col, loaders[i].desc) :
          loaders' = [loaders EXCEPT ![i].ids = ids, ![i].pc = "filter_write"]
    /\ UNCHANGED <<all_items, raw_count, filtered_ids, show_errors, sort_col, sort_desc,
                   is_busy, current_file_path, last_file_size, txt_search,
                   owner, msg_queue, search_timer, lv_count, filters, disk, pending_notify, loopVars>>

\* apply_filter_logic 1553-1554: *filt_guard = ids
LoaderFilterWrite(i) ==
    /\ At(i, "filter_write")
    /\ filtered_ids' = loaders[i].ids
    /\ loaders' = [loaders EXCEPT ![i].pc = "drop"]
    /\ UNCHANGED <<all_items, raw_count, show_errors, sort_col, sort_desc, is_busy,
                   current_file_path, last_file_size, txt_search, owner,
                   msg_queue, search_timer, lv_count, filters, disk, pending_notify, loopVars>>

\* drop(busy)
BusyGuard_drop(i) ==
    /\ At(i, "drop")
    /\ is_busy' = FALSE
    /\ loaders' = [loaders EXCEPT ![i].pc = "notify"]
    /\ UNCHANGED <<all_items, raw_count, filtered_ids, show_errors, sort_col, sort_desc,
                   current_file_path, last_file_size, txt_search, owner,
                   msg_queue, search_timer, lv_count, filters, disk, pending_notify, loopVars>>

\* SendMessage(WM_FORCE_NORMAL), then PostMessage(WM_LOAD_DONE or WM_LOAD_ERROR).
LoaderNotify(i) ==
    /\ At(i, "notify")
    /\ SendMessage
    /\ msg_queue' = PostMessage(msg_queue,
                        IF loaders[i].res.ok THEN "WM_LOAD_DONE" ELSE "WM_LOAD_ERROR",
                        loaders[i].kind)
    /\ loaders' = [loaders EXCEPT ![i] = Finished(loaders[i])]
    /\ UNCHANGED <<all_items, raw_count, filtered_ids, show_errors, sort_col, sort_desc,
                   is_busy, current_file_path, last_file_size, txt_search,
                   owner, search_timer, lv_count, filters, disk, pending_notify, loopVars>>

-----------------------------------------------------------------------------
(* Query passes: the closure of trigger_async_filter *)

FilterAt(i, pc) == i \in 1..Len(filters) /\ filters[i].pc = pc

FilterRead(i) ==
    /\ FilterAt(i, "read")
    /\ owner # "dead"
    /\ \E ids \in filter_compute(all_items, filters[i].query, filters[i].show_err,
                                 filters[i].col, filters[i].desc) :
          filters' = [filters EXCEPT ![i].ids = ids, ![i].pc = "write"]
    /\ UNCHANGED <<all_items, raw_count, filtered_ids, show_errors, sort_col, sort_desc,
                   is_busy, current_file_path, last_file_size, txt_search,
                   owner, msg_queue, search_timer, lv_count, loaders, disk, pending_notify, loopVars>>

FilterWrite(i) ==
    /\ FilterAt(i, "write")
    /\ filtered_ids' = filters[i].ids
    /\ filters' = [filters EXCEPT ![i].pc = "post"]
    /\ UNCHANGED <<all_items, raw_count, show_errors, sort_col, sort_desc, is_busy,
                   current_file_path, last_file_size, txt_search, owner,
                   msg_queue, search_timer, lv_count, loaders, disk, pending_notify, loopVars>>

FilterPost(i) ==
    /\ FilterAt(i, "post")
    /\ msg_queue' = PostMessage(msg_queue, "WM_FILTER_DONE", "filter")
    /\ filters' = [filters EXCEPT ![i] = FilterDone(filters[i])]
    /\ UNCHANGED <<all_items, raw_count, filtered_ids, show_errors, sort_col, sort_desc,
                   is_busy, current_file_path, last_file_size, txt_search,
                   owner, search_timer, lv_count, loaders, disk, pending_notify, loopVars>>

-----------------------------------------------------------------------------
(* Outside the process *)

\* Something appends a record to a.log. The directory watcher, when one is
\* installed (on_btn_open_clicked 910-935), sees the event and runs its callback.
FileGrows ==
    /\ owner # "dead"
    /\ disk["a.log"] < MaxVer
    /\ disk' = [disk EXCEPT !["a.log"] = @ + 1]
    /\ pending_notify' = IF is_some(current_file_path) THEN pending_notify + 1
                         ELSE pending_notify
    /\ UNCHANGED <<all_items, raw_count, filtered_ids, show_errors, sort_col, sort_desc,
                   is_busy, current_file_path, last_file_size, txt_search,
                   owner, msg_queue, search_timer, lv_count, loaders, filters, loopVars>>

\* The watcher callback (925-929): sleep 500 ms, then PostMessage(WM_FILE_CHANGED).
WatcherPost ==
    /\ owner # "dead"
    /\ pending_notify > 0
    /\ pending_notify' = pending_notify - 1
    /\ msg_queue' = PostMessage(msg_queue, "WM_FILE_CHANGED", "watcher")
    /\ UNCHANGED <<all_items, raw_count, filtered_ids, show_errors, sort_col, sort_desc,
                   is_busy, current_file_path, last_file_size, txt_search,
                   owner, search_timer, lv_count, loaders, filters, disk, loopVars>>

-----------------------------------------------------------------------------
(* The program *)

OwnerInput ==
    \/ \E path \in Paths, is_append \in BOOLEAN : on_btn_open_clicked(path, is_append, TRUE)
    \/ \E folder \in Folders, is_append \in BOOLEAN :
            on_btn_open_folder_clicked(folder, is_append)
    \/ wm_key_down_F5
    \/ \E row \in 0..(MaxRows - 1) : on_lst_nm_custom_draw(row)

OwnerMessage ==
    \/ wm_LOAD_DONE
    \/ wm_LOAD_ERROR
    \/ wm_FILTER_DONE
    \/ \E meta_ok \in BOOLEAN : wm_FILE_CHANGED(meta_ok)

LoaderStep(i) ==
    \/ BusyGuard_new(i)
    \/ LoaderParse(i)
    \/ LoaderWriteItems(i)
    \/ LoaderWriteRaw(i)
    \/ LoaderWriteStore(i)
    \/ LoaderFilterRead(i)
    \/ LoaderFilterWrite(i)
    \/ BusyGuard_drop(i)
    \/ LoaderNotify(i)

FilterStep(i) ==
    \/ FilterRead(i)
    \/ FilterWrite(i)
    \/ FilterPost(i)

Workers ==
    \/ \E i \in 1..MaxLoads : LoaderStep(i)
    \/ \E i \in 1..MaxPasses : FilterStep(i)

Environment == FileGrows \/ WatcherPost

\* Ingestion: loads, tail-mode reloads and the passes they start, with the
\* search text, the failed-sessions flag and the sort spec left as they are.
Next == OwnerInput \/ OwnerMessage \/ Workers \/ Environment

Spec == Init /\ [][Next]_vars

\* Threads run and the owner's message loop takes the messages posted to it.
FairSpec ==
    /\ Spec
    /\ \A i \in 1..MaxLoads : WF_vars(LoaderStep(i))
    /\ \A i \in 1..MaxPasses : WF_vars(FilterStep(i))
    /\ WF_vars(OwnerMessage)

-----------------------------------------------------------------------------
(* The program once a.log has been opened and shown *)

\* a.log has been opened, not in append mode, and shown: one Transaction, one
\* row; the watcher of its directory is installed.
Watching ==
    /\ all_items = parse_full_logic(ReadFile("a.log", 1, "none")).items
    /\ raw_count = 1
    /\ filtered_ids = <<0>>
    /\ show_errors = FALSE
    /\ sort_col = "Timestamp"
    /\ sort_desc = TRUE
    /\ is_busy = FALSE
    /\ current_file_path = Some("a.log")
    /\ last_file_size = 1
    /\ txt_search = <<>>
    /\ owner = "running"
    /\ msg_queue = <<>>
    /\ search_timer = FALSE
    /\ lv_count = 1
    /\ loaders = <<>>
    /\ filters = <<>>
    /\ disk = [p \in Paths |-> 1]
    /\ pending_notify = 0
    /\ LoopIdle

\* Folder loads that replace the store, growth of the watched file and the
\* reloads it triggers.
NextWatch ==
    \/ \E folder \in Folders : on_btn_open_folder_clicked(folder, FALSE)
    \/ FileGrows
    \/ WatcherPost
    \/ \E meta_ok \in BOOLEAN : wm_FILE_CHANGED(meta_ok)
    \/ wm_LOAD_DONE
    \/ wm_LOAD_ERROR
    \/ \E i \in 1..MaxLoads : LoaderStep(i)

SpecWatch == Watching /\ [][NextWatch]_vars

-----------------------------------------------------------------------------
(* Queries on a loaded Store *)

\* a.log, holding two requests, has been opened, and its WM_LOAD_DONE handled.
Loaded ==
    /\ all_items = parse_full_logic(ReadFile("a.log", 2, "none")).items
    /\ raw_count = 2
    /\ filtered_ids = <<1, 0>>
    /\ show_errors = FALSE
    /\ sort_col = "Timestamp"
    /\ sort_desc = TRUE
    /\ is_busy = FALSE
    /\ current_file_path = Some("a.log")
    /\ last_file_size = 2
    /\ txt_search = <<>>
    /\ owner = "running"
    /\ msg_queue = <<>>
    /\ search_timer = FALSE
    /\ lv_count = 2
    /\ loaders = <<Idle>>
    /\ filters = <<>>
    /\ disk = [p \in Paths |-> IF p = "a.log" THEN 2 ELSE 1]
    /\ pending_notify = 0

InitQuery == Loaded /\ LoopIdle

QueryInput ==
    \/ \E text \in Queries : en_change(text)
    \/ wm_timer
    \/ \E col \in ClickCols : on_lst_lvn_column_click(col)
    \/ on_btn_rejects_clicked

NextQuery ==
    \/ QueryInput
    \/ wm_FILTER_DONE
    \/ \E i \in 1..MaxPasses : FilterStep(i)
    \/ \E row \in 0..(MaxRows - 1) : on_lst_nm_custom_draw(row)

SpecQuery == InitQuery /\ [][NextQuery]_vars

-----------------------------------------------------------------------------
(* The window as constructed: queries on the empty store *)

NextNew ==
    \/ QueryInput
    \/ wm_FILTER_DONE
    \/ \E i \in 1..MaxPasses : FilterStep(i)

SpecNew == Init /\ [][NextNew]_vars

-----------------------------------------------------------------------------
(* One run of the grouping loop of parse_full_logic, on its own *)

ClassValues == {None, Some(<<>>), Some(<<"k", "1">>), Some(<<"k", "2">>)}
SessionValues == {None, Some(<<>>), Some(<<"k", "1">>)}

\* Decoded events: a request or an accept, with every class of ClassValues and
\* every session id of SessionValues.
EventPool ==
    {Event(None, Some(pt), cls, sess, None, None) :
        pt \in {<<"1">>, <<"2">>}, cls \in ClassValues, sess \in SessionValues}

InitCorr ==
    /\ CoreInit
    /\ events_all \in UNION {[1..n -> EventPool] : n \in 0..MaxEvents}
    /\ ev_next = 0
    /\ groups = <<>>
    /\ class_map = {}
    /\ requests = None
    /\ pg_group = <<>>
    /\ pg_next = 0
    /\ pg_req = RadiusRequest_default
    /\ event_blobs = <<>>
    /\ parse_result = None
    /\ tie_break \in TieBreaks
    /\ ProgressIdle
    /\ selected = None

\* One iteration of `for ev in events_all` (1649-1664).
GroupLoop ==
    /\ requests = None
    /\ ev_next < Len(events_all)
    /\ LET st == group_step([groups |-> groups, class_map |-> class_map],
                            events_all[ev_next + 1])
       IN  groups' = st.groups /\ class_map' = st.class_map
    /\ ev_next' = ev_next + 1
    /\ UNCHANGED <<events_all, requests, pg_group, pg_next, pg_req, event_blobs,
                   parse_result, tie_break, progVars,
                   selected, coreVars>>

\* groups.into_par_iter().map(|g| process_group(&g)).collect() (1666-1668)
Collect ==
    /\ requests = None
    /\ ev_next = Len(events_all)
    /\ requests' = Some([i \in 1..Len(groups) |-> process_group(groups[i])])
    /\ UNCHANGED <<events_all, ev_next, groups, class_map, pg_group, pg_next, pg_req,
                   event_blobs, parse_result, tie_break, progVars,
                   selected, coreVars>>

NextCorr == GroupLoop \/ Collect

SpecCorr == InitCorr /\ [][NextCorr]_vars

-----------------------------------------------------------------------------
(* One query pass of apply_filter_logic, on its own *)

SessionIds == << <<>>, <<"s", "1">>, <<"s", "2">> >>
ResponseTypes == << <<>>, STR_ACCESS_REJECT, STR_ACCESS_ACCEPT, STR_ACCOUNTING_RESPONSE >>

\* Transactions of the Store: every session id of SessionIds with every
\* response-type of ResponseTypes. The timestamp and the reason go with the
\* response (the reason is the one process_group records with it); the user is
\* BOB or alice, both occurring with every session id and every response-type.
ItemPool ==
    {[RadiusRequest_default EXCEPT
        !.timestamp = <<Digits[r + 1]>>,
        !.req_type = STR_ACCESS_REQUEST,
        !.user = IF (s + r) % 2 = 0 THEN <<"B", "O", "B">> ELSE <<"a", "l", "i", "c", "e">>,
        !.session_id = SessionIds[s],
        !.resp_type = ResponseTypes[r],
        !.reason = IF ResponseTypes[r] = <<>> THEN <<>>
                   ELSE IF ResponseTypes[r] = STR_ACCESS_REJECT THEN map_reason(<<"1", "6">>)
                   ELSE map_reason(<<"0">>)] :
        s \in 1..Len(SessionIds), r \in 1..Len(ResponseTypes)}

\* A Store has been loaded and one pass has been spawned by trigger_async_filter.
InitFilter ==
    /\ all_items \in UNION {[1..n -> ItemPool] : n \in 0..MaxItems}
    /\ raw_count = Len(all_items)
    /\ filtered_ids = <<>>
    /\ show_errors \in BOOLEAN
    /\ sort_col \in ClickCols
    /\ sort_desc \in BOOLEAN
    /\ is_busy = FALSE
    /\ current_file_path = None
    /\ last_file_size = 0
    /\ txt_search \in Queries
    /\ owner = "running"
    /\ msg_queue = <<>>
    /\ search_timer = FALSE
    /\ lv_count = 0
    /\ loaders = <<>>
    /\ filters = <<NewFilter(txt_search, show_errors, sort_col, sort_desc)>>
    /\ disk = [p \in Paths |-> 1]
    /\ pending_notify = 0
    /\ LoopIdle

NextFilter ==
    \/ FilterRead(1)
    \/ FilterWrite(1)
    \/ FilterPost(1)
    \/ wm_FILTER_DONE

SpecFilter == InitFilter /\ [][NextFilter]_vars

-----------------------------------------------------------------------------
(* Several passes of apply_filter_logic over one Store *)

\* Transactions with a session id and no response or a reject: two of them
\* with the same response compare equal on the timestamp and on the reason.
RerunPool ==
    {it \in ItemPool : it.session_id # <<>> /\ it.resp_type \in {<<>>, STR_ACCESS_REJECT}}

\* A Store has been loaded and trigger_async_filter has spawned MaxPasses
\* passes with the same query, flag, sort column and direction.
InitRerun ==
    /\ all_items \in UNION {[1..n -> RerunPool] : n \in 0..MaxItems}
    /\ raw_count = Len(all_items)
    /\ filtered_ids = <<>>
    /\ show_errors \in BOOLEAN
    /\ sort_col \in ClickCols
    /\ sort_desc \in BOOLEAN
    /\ is_busy = FALSE
    /\ current_file_path = None
    /\ last_file_size = 0
    /\ txt_search \in Queries
    /\ owner = "running"
    /\ msg_queue = <<>>
    /\ search_timer = FALSE
    /\ lv_count = 0
    /\ loaders = <<>>
    /\ filters = [i \in 1..MaxPasses |->
                     NewFilter(txt_search, show_errors, sort_col, sort_desc)]
    /\ disk = [p \in Paths |-> 1]
    /\ pending_notify = 0
    /\ LoopIdle

NextRerun ==
    \/ \E i \in 1..MaxPasses : FilterStep(i)
    \/ wm_FILTER_DONE

SpecRerun == InitRerun /\ [][NextRerun]_vars

-----------------------------------------------------------------------------
(* One pass of apply_filter_logic under every sort key *)

\* enum LogColumn
LogColumns == {"Timestamp", "Type", "Server", "ApIp", "ApName", "Mac", "User",
               "ResponseType", "Reason", "Session"}

\* Values of RadiusRequest that differ in the response-type and the reason
\* only; the reason is empty or a text.
SortPool ==
    {[RadiusRequest_default EXCEPT
        !.timestamp = <<"1">>,
        !.req_type = STR_ACCESS_REQUEST,
        !.user = <<"b", "o", "b">>,
        !.resp_type = rt,
        !.reason = rs] :
        rt \in {STR_ACCESS_ACCEPT, STR_ACCESS_REJECT},
        rs \in {<<>>, map_reason(<<"1", "6">>)}}

\* A Store of such values, and one pass spawned with an empty query, the
\* flag off, and any sort key and direction.
InitSort ==
    /\ all_items \in UNION {[1..n -> SortPool] : n \in 0..MaxItems}
    /\ raw_count = Len(all_items)
    /\ filtered_ids = <<>>
    /\ show_errors = FALSE
    /\ sort_col \in LogColumns
    /\ sort_desc \in BOOLEAN
    /\ is_busy = FALSE
    /\ current_file_path = None
    /\ last_file_size = 0
    /\ txt_search = <<>>
    /\ owner = "running"
    /\ msg_queue = <<>>
    /\ search_timer = FALSE
    /\ lv_count = 0
    /\ loaders = <<>>
    /\ filters = <<NewFilter(txt_search, show_errors, sort_col, sort_desc)>>
    /\ disk = [p \in Paths |-> 1]
    /\ pending_notify = 0
    /\ LoopIdle

SpecSort == InitSort /\ [][NextFilter]_vars

-----------------------------------------------------------------------------
(* One pass of apply_filter_logic under several text queries *)

STR_BOB == <<"B", "O", "B">>
STR_ALICE == <<"a", "l", "i", "c", "e">>

\* A Transaction folded from a request of user alice.
RequestOfAlice ==
    [RadiusRequest_default EXCEPT !.req_type = STR_ACCESS_REQUEST, !.user = STR_ALICE]

\* Transactions that hold BOB in one field each: the fields a request sets
\* from its event, and the response-type and the reason of a response-only
\* Transaction whose packet type or reason code is not in the tables. One
\* more Transaction is of a user whose name is an upper-case letter outside
\* ASCII, and one is of alice.
SearchPool ==
    { RequestOfAlice,
      [RequestOfAlice EXCEPT !.user = STR_BOB],
      [RequestOfAlice EXCEPT !.user = <<"É">>],
      [RequestOfAlice EXCEPT !.mac = STR_BOB],
      [RequestOfAlice EXCEPT !.ap_ip = STR_BOB],
      [RequestOfAlice EXCEPT !.ap_name = STR_BOB],
      [RequestOfAlice EXCEPT !.server = STR_BOB],
      [RequestOfAlice EXCEPT !.timestamp = STR_BOB],
      [RequestOfAlice EXCEPT !.session_id = STR_BOB],
      [RadiusRequest_default EXCEPT !.resp_type = map_packet_type(STR_BOB),
                                    !.reason = map_reason(<<"0">>)],
      [RadiusRequest_default EXCEPT !.resp_type = STR_ACCESS_ACCEPT,
                                    !.reason = map_reason(STR_BOB)] }

\* Texts of the search box: empty, a name in lower case, the same between
\* spaces, a part of a request-type in upper case, a lower-case letter
\* outside ASCII.
SearchQueries ==
    { <<>>, <<"b", "o", "b">>, <<" ", "b", "o", "b", " ">>, <<"R", "E", "Q">>, <<"é">> }

\* A Store of such Transactions, and one pass spawned with one of the texts,
\* the flag off and the default sort.
InitSearch ==
    /\ all_items \in UNION {[1..n -> SearchPool] : n \in 0..MaxItems}
    /\ raw_count = Len(all_items)
    /\ filtered_ids = <<>>
    /\ show_errors = FALSE
    /\ sort_col = "Timestamp"
    /\ sort_desc = TRUE
    /\ is_busy = FALSE
    /\ current_file_path = None
    /\ last_file_size = 0
    /\ txt_search \in SearchQueries
    /\ owner = "running"
    /\ msg_queue = <<>>
    /\ search_timer = FALSE
    /\ lv_count = 0
    /\ loaders = <<>>
    /\ filters = <<NewFilter(txt_search, show_errors, sort_col, sort_desc)>>
    /\ disk = [p \in Paths |-> 1]
    /\ pending_notify = 0
    /\ LoopIdle

SpecSearch == InitSearch /\ [][NextFilter]_vars

-----------------------------------------------------------------------------
(* The write guard of all_items, taken by a worker while the list is drawn *)

InitLocks == Watching

\* The owner thread blocked in RwLock::read while it draws the row.
Waiting(row) == "waiting " \o ToString(row)

\* A worker holds the write guard of all_items (975, between write() and the
\* end of the block).
HoldsWriteGuard(w) == w.pc = "write_items_locked"

\* all_items_bg.write() (975): the guard is granted when no other worker holds it.
RwLock_write(i) ==
    /\ At(i, "write_items")
    /\ \A j \in 1..Len(loaders) : ~HoldsWriteGuard(loaders[j])
    /\ loaders' = [loaders EXCEPT ![i].pc = "write_items_locked"]
    /\ UNCHANGED <<all_items, raw_count, filtered_ids, show_errors, sort_col, sort_desc,
                   is_busy, current_file_path, last_file_size, txt_search, owner,
                   msg_queue, search_timer, lv_count, filters, disk, pending_notify, loopVars>>

\* on_lst_nm_custom_draw for row dwItemSpec, at self.all_items.read() (1335):
\* RwLock::read blocks while a writer holds the lock; otherwise the handler
\* runs to its end.
on_lst_nm_custom_draw_read(row) ==
    /\ InputReady
    /\ row < lv_count
    /\ IF \E j \in 1..Len(loaders) : HoldsWriteGuard(loaders[j])
       THEN /\ owner' = Waiting(row)
            /\ UNCHANGED <<all_items, raw_count, filtered_ids, show_errors, sort_col,
                           sort_desc, is_busy, current_file_path, last_file_size,
                           txt_search, msg_queue, search_timer, lv_count, loaders,
                           filters, disk, pending_notify, loopVars>>
       ELSE on_lst_nm_custom_draw(row)

\* The block 974-977 with the guard held: extend or replace, then the guard
\* is dropped.
LoaderWriteItemsLocked(i) ==
    /\ At(i, "write_items_locked")
    /\ all_items' = IF loaders[i].is_append THEN all_items \o loaders[i].res.items
                    ELSE loaders[i].res.items
    /\ loaders' = [loaders EXCEPT ![i].pc = "write_raw"]
    /\ UNCHANGED <<raw_count, filtered_ids, show_errors, sort_col, sort_desc, is_busy,
                   current_file_path, last_file_size, txt_search, owner,
                   msg_queue, search_timer, lv_count, filters, disk, pending_notify, loopVars>>

\* The read guard is granted to the owner thread once the writer has dropped
\* its guard, and the handler runs to its end (1335-1337) for the row it
\* was drawing.
on_lst_nm_custom_draw_resume(row) ==
    /\ owner = Waiting(row)
    /\ \A j \in 1..Len(loaders) : ~HoldsWriteGuard(loaders[j])
    /\ IF row < Len(filtered_ids) /\ filtered_ids[row + 1] >= Len(all_items)
       THEN Crash
       ELSE /\ owner' = "running"
            /\ UNCHANGED <<all_items, raw_count, filtered_ids, show_errors, sort_col,
                           sort_desc, is_busy, current_file_path, last_file_size,
                           txt_search, msg_queue, search_timer, lv_count, loaders,
                           filters, disk, pending_notify, loopVars>>

NextLocks ==
    \/ \E row \in 0..(MaxRows - 1) : on_lst_nm_custom_draw_read(row)
    \/ \E row \in 0..(MaxRows - 1) : on_lst_nm_custom_draw_resume(row)
    \/ \E i \in 1..MaxLoads : BusyGuard_new(i)
    \/ \E i \in 1..MaxLoads : LoaderParse(i)
    \/ \E i \in 1..MaxLoads : RwLock_write(i)
    \/ \E i \in 1..MaxLoads : LoaderWriteItemsLocked(i)
    \/ \E i \in 1..MaxLoads : LoaderWriteRaw(i)
    \/ \E i \in 1..MaxLoads : LoaderFilterRead(i)
    \/ \E i \in 1..MaxLoads : LoaderFilterWrite(i)
    \/ \E i \in 1..MaxLoads : BusyGuard_drop(i)
    \/ \E i \in 1..MaxLoads : LoaderNotify(i)
    \/ \E i \in 1..MaxPasses : FilterStep(i)
    \/ wm_LOAD_DONE
    \/ wm_LOAD_ERROR
    \/ wm_FILTER_DONE
    \/ \E path \in Paths, is_append \in BOOLEAN : on_btn_open_clicked(path, is_append, TRUE)

SpecLocks == InitLocks /\ [][NextLocks]_vars

-----------------------------------------------------------------------------
(* One call of process_group, on its own *)

PacketTypes == {None, Some(<<"1">>), Some(<<"2">>), Some(<<"3">>), Some(<<"5">>), Some(<<"9">>)}
ReasonCodes == {None, Some(<<"0">>), Some(<<"1", "6">>)}

\* Events of one group: every packet type of PacketTypes with every reason
\* code of ReasonCodes.
GroupPool ==
    {Event(Some(<<"1">>), pt, Some(<<"k", "1">>), None, None, rc) :
        pt \in PacketTypes, rc \in ReasonCodes}

\* process_group is called on non-empty groups only (1657-1662).
InitFold ==
    /\ CoreInit
    /\ events_all = <<>>
    /\ ev_next = 0
    /\ groups = <<>>
    /\ class_map = {}
    /\ requests = None
    /\ pg_group \in UNION {[1..n -> GroupPool] : n \in 1..MaxGroup}
    /\ pg_next = 0
    /\ pg_req = RadiusRequest_default
    /\ event_blobs = <<>>
    /\ parse_result = None
    /\ tie_break \in TieBreaks
    /\ ProgressIdle
    /\ selected = None

\* One iteration of `for event in group` (1675-1707).
FoldLoop ==
    /\ pg_next < Len(pg_group)
    /\ pg_req' = fold_event(pg_req, pg_group[pg_next + 1])
    /\ pg_next' = pg_next + 1
    /\ UNCHANGED <<events_all, ev_next, groups, class_map, requests, pg_group,
                   event_blobs, parse_result, tie_break, progVars,
                   selected, coreVars>>

NextFold == FoldLoop

SpecFold == InitFold /\ [][NextFold]_vars

-----------------------------------------------------------------------------
(* process_group on events that differ in their user and client-name fields *)

STR_SAM == <<"D", "O", "M", "\\", "b", "o", "b">>
STR_USER_NAME == <<"b", "o", "b", "@", "d">>
STR_FRIENDLY == <<"A", "P", "-", "1">>
STR_NAS == <<"n", "a", "s">>

\* Access-Requests with every combination of SAM account, user-name, friendly
\* name and NAS-identifier present or absent; an Accounting-Request; an
\* Access-Accept.
FieldPool ==
    {[Event(None, Some(<<"1">>), None, None, user, None) EXCEPT
            !.sam_account = sam, !.client_friendly_name = friendly, !.ap_name = nas] :
        user \in {None, Some(STR_USER_NAME)}, sam \in {None, Some(STR_SAM)},
        friendly \in {None, Some(STR_FRIENDLY)}, nas \in {None, Some(STR_NAS)}}
    \cup {[Event(None, Some(<<"4">>), None, None, Some(STR_USER_NAME), None) EXCEPT
            !.ap_name = Some(STR_NAS)],
          Event(None, Some(<<"2">>), None, None, None, None)}

InitFields ==
    /\ CoreInit
    /\ events_all = <<>>
    /\ ev_next = 0
    /\ groups = <<>>
    /\ class_map = {}
    /\ requests = None
    /\ pg_group \in UNION {[1..n -> FieldPool] : n \in 1..MaxGroup}
    /\ pg_next = 0
    /\ pg_req = RadiusRequest_default
    /\ event_blobs = <<>>
    /\ parse_result = None
    /\ tie_break \in TieBreaks
    /\ ProgressIdle
    /\ selected = None

SpecFields == InitFields /\ [][NextFold]_vars

-----------------------------------------------------------------------------
(* The progress reports of parse_full_logic(path, Some(hwnd)) *)

MaxLen == 5

\* ((end_pos * 100) / total_len) as u8: the extraction reporting on the whole range.
extract_pct_whole(end_pos, total_len) == ((end_pos * 100) \div total_len) % 256

\* ((end_pos * 50) / total_len) as u8 (1583). The product is a u64; end_pos is a
\* position in a String held in memory, far below 2^64 / 50.
extract_pct(end_pos, total_len) == ((end_pos * 50) \div total_len) % 256

\* (total_blobs / 100).max(1) (1625)
decode_step(total_blobs) ==
    IF total_blobs \div 100 > 1 THEN total_blobs \div 100 ELSE 1

\* 50 + ((current * 50) / total_blobs) (1628)
decode_pct(current, total_blobs) == 50 + ((current * 50) \div total_blobs)

\* A file of up to MaxLen bytes, with an <Event> element ending at each
\* position of `ends`; the empty file has none.
InitProgress ==
    /\ CoreInit
    /\ events_all = <<>>
    /\ ev_next = 0
    /\ groups = <<>>
    /\ class_map = {}
    /\ requests = None
    /\ pg_group = <<>>
    /\ pg_next = 0
    /\ pg_req = RadiusRequest_default
    /\ event_blobs = <<>>
    /\ parse_result = None
    /\ tie_break \in TieBreaks
    /\ content \in {[len |-> l, ends |-> e] : l \in 0..MaxLen, e \in SUBSET (1..MaxLen)}
    /\ content.ends \subseteq 1..content.len
    /\ reader_pos = 0
    /\ last_progress = 0
    /\ processed_count = 0
    /\ decoders = [t \in 1..NumDecoders |-> [pc |-> "idle", current |-> 0]]
    /\ posted = <<>>
    /\ delivered = 0
    /\ progress_bar = [visible |-> FALSE, position |-> 0]
    /\ selected = None

\* let total_blobs = raw_event_count (1611), once the extraction loop has ended
total_blobs == Cardinality(content.ends)

\* The reader has met Eof.
ExtractionDone == \A e \in content.ends : e <= reader_pos

\* One <Event> element found by the extraction loop (1573-1596).
ReadEvent ==
    /\ ~ExtractionDone
    /\ LET end_pos == CHOOSE e \in content.ends :
                          /\ e > reader_pos
                          /\ \A f \in content.ends : f > reader_pos => e <= f
           pct == extract_pct(end_pos, content.len)
       IN  /\ reader_pos' = end_pos
           /\ IF pct > last_progress
              THEN posted' = Append(posted, pct) /\ last_progress' = pct
              ELSE UNCHANGED <<posted, last_progress>>
    /\ UNCHANGED <<content, processed_count, decoders, delivered, progress_bar,
                   events_all, ev_next, groups, class_map, requests, pg_group, pg_next,
                   pg_req, event_blobs, parse_result, tie_break, selected, coreVars>>

\* A pool thread has decoded a fragment: count_clone.fetch_add(1, Relaxed) + 1 (1624).
DecodeFetchAdd(t) ==
    /\ ExtractionDone
    /\ decoders[t].pc = "idle"
    /\ processed_count < total_blobs
    /\ processed_count' = processed_count + 1
    /\ decoders' = [decoders EXCEPT ![t] = [pc |-> "fetched", current |-> processed_count + 1]]
    /\ UNCHANGED <<content, reader_pos, last_progress, posted, delivered, progress_bar,
                   events_all, ev_next, groups, class_map, requests, pg_group, pg_next,
                   pg_req, event_blobs, parse_result, tie_break, selected, coreVars>>

\* The same thread goes on: `if current % step == 0 { PostMessage(pct) }` (1625-1637).
DecodePost(t) ==
    /\ decoders[t].pc = "fetched"
    /\ LET current == decoders[t].current
       IN  posted' = IF current % decode_step(total_blobs) = 0
                     THEN Append(posted, decode_pct(current, total_blobs))
                     ELSE posted
    /\ decoders' = [decoders EXCEPT ![t] = [pc |-> "idle", current |-> 0]]
    /\ UNCHANGED <<content, reader_pos, last_progress, processed_count, delivered,
                   progress_bar,
                   events_all, ev_next, groups, class_map, requests, pg_group, pg_next,
                   pg_req, event_blobs, parse_result, tie_break, selected, coreVars>>

\* The owner thread handles the oldest WM_PROGRESS (445-468).
wm_PROGRESS ==
    /\ delivered < Len(posted)
    /\ LET percent == posted[delivered + 1]
       IN  progress_bar' =
               IF percent = 0 THEN [visible |-> TRUE, position |-> 0]
               ELSE IF percent >= 100 THEN [progress_bar EXCEPT !.visible = FALSE]
               ELSE [progress_bar EXCEPT !.position = percent]
    /\ delivered' = delivered + 1
    /\ UNCHANGED <<content, reader_pos, last_progress, processed_count, decoders, posted,
                   events_all, ev_next, groups, class_map, requests, pg_group, pg_next,
                   pg_req, event_blobs, parse_result, tie_break, selected, coreVars>>

NextProgress ==
    \/ ReadEvent
    \/ \E t \in 1..NumDecoders : DecodeFetchAdd(t)
    \/ \E t \in 1..NumDecoders : DecodePost(t)
    \/ wm_PROGRESS

SpecProgress == InitProgress /\ [][NextProgress]_vars

-----------------------------------------------------------------------------
(* Error navigation in the list *)

\* Transactions with no highlight, the success highlight, the failure highlight.
NavPool ==
    {[RadiusRequest_default EXCEPT !.bg_color = c] :
        c \in {None, Some(<<188, 255, 188>>), Some(<<255, 188, 188>>)}}

\* A store of such Transactions, shown whole in store order or in reverse,
\* with one row selected or none.
InitNav ==
    /\ all_items \in UNION {[1..n -> NavPool] : n \in 0..MaxItems}
    /\ raw_count = Len(all_items)
    /\ filtered_ids \in {[k \in 1..Len(all_items) |-> k - 1],
                         [k \in 1..Len(all_items) |-> Len(all_items) - k]}
    /\ show_errors = FALSE
    /\ sort_col = "Timestamp"
    /\ sort_desc = TRUE
    /\ is_busy = FALSE
    /\ current_file_path = None
    /\ last_file_size = 0
    /\ txt_search = <<>>
    /\ owner = "running"
    /\ msg_queue = <<>>
    /\ search_timer = FALSE
    /\ lv_count = Len(filtered_ids)
    /\ loaders = <<>>
    /\ filters = <<>>
    /\ disk = [p \in Paths |-> 1]
    /\ pending_notify = 0
    /\ events_all = <<>>
    /\ ev_next = 0
    /\ groups = <<>>
    /\ class_map = {}
    /\ requests = None
    /\ pg_group = <<>>
    /\ pg_next = 0
    /\ pg_req = RadiusRequest_default
    /\ event_blobs = <<>>
    /\ parse_result = None
    /\ tie_break \in TieBreaks
    /\ ProgressIdle
    /\ selected \in {None} \cup {Some(row) : row \in 0..(lv_count - 1)}

\* The loop of jump_to_error (700-713) with `remaining` iterations left: the
\* row it finds, or None.
RECURSIVE jump_scan(_, _, _)
jump_scan(current, direction, remaining) ==
    LET len == Len(filtered_ids)
        cur == IF current < 0 THEN len - 1 ELSE IF current >= len THEN 0 ELSE current
        real_idx == filtered_ids[cur + 1]
    IN  IF remaining = 0 THEN None
        ELSE IF real_idx < Len(all_items) /\ is_some(all_items[real_idx + 1].bg_color)
             THEN Some(cur)
             ELSE jump_scan(cur + direction, direction, remaining - 1)

\* jump_to_error: the row it selects, or None when it selects nothing.
jump_to_error(start_idx, direction) ==
    IF Len(filtered_ids) = 0 THEN None
    ELSE jump_scan(start_idx + direction, direction, Len(filtered_ids))

\* navigate_error(direction), direction 1 (next) or -1 (previous).
navigate_error(direction) ==
    /\ InputReady
    /\ LET start_idx == IF selected = None
                        THEN (IF direction > 0 THEN 0 ELSE -1)
                        ELSE selected[1]
           found == jump_to_error(start_idx, direction)
       IN  selected' = IF found # None THEN found ELSE selected
    /\ UNCHANGED <<coreVars, progVars, events_all, ev_next, groups, class_map, requests,
                   pg_group, pg_next, pg_req, event_blobs, parse_result, tie_break>>

NextNav == \E direction \in {1, -1} : navigate_error(direction)

SpecNav == InitNav /\ [][NextNav]_vars

-----------------------------------------------------------------------------
(* parse_full_logic on the fragments of one file *)

\* What a fragment decodes to: None for a malformed one, or an event that is
\* a request or an accept, with or without a class and a session id.
BlobPool ==
    {None} \cup
    {Some(Event(None, Some(pt), cls, sess, None, None)) :
        pt \in {<<"1">>, <<"2">>},
        cls \in {None, Some(<<"k", "1">>)},
        sess \in {None, Some(<<"k", "1">>)}}

InitParse ==
    /\ CoreInit
    /\ events_all = <<>>
    /\ ev_next = 0
    /\ groups = <<>>
    /\ class_map = {}
    /\ requests = None
    /\ pg_group = <<>>
    /\ pg_next = 0
    /\ pg_req = RadiusRequest_default
    /\ event_blobs \in UNION {[1..n -> BlobPool] : n \in 0..MaxBlobs}
    /\ parse_result = None
    /\ tie_break \in TieBreaks
    /\ ProgressIdle
    /\ selected = None

\* The call, from the extracted fragments to the returned value (1606-1670).
ParseFile ==
    /\ parse_result = None
    /\ parse_result' = Some(parse_full_logic([readable |-> TRUE, truncated |-> FALSE,
                                              blobs |-> event_blobs]))
    /\ UNCHANGED <<events_all, ev_next, groups, class_map, requests, pg_group, pg_next,
                   pg_req, event_blobs, tie_break, progVars,
                   selected, coreVars>>

NextParse == ParseFile

SpecParse == InitParse /\ [][NextParse]_vars

-----------------------------------------------------------------------------
(* Properties of the Store, the index list and the ingestion workers *)

\* C1: in every reachable state every index held in filtered_ids is a position
\* of all_items, so the by-index accessor never resolves to a missing Transaction.
C1_IndexListValid ==
    \A k \in 1..Len(filtered_ids) : filtered_ids[k] < Len(all_items)

AllPassesFinished ==
    /\ filters # <<>>
    /\ \A i \in 1..Len(filters) : filters[i].pc = "done"

LastPass == filters[Len(filters)]

\* C2: last request wins. Once every launched query pass has finished, the index
\* list is a result of the pass launched last, whatever the order in which the
\* passes completed.
C2_LastRequestWins ==
    AllPassesFinished =>
        filtered_ids \in filter_compute(all_items, LastPass.query, LastPass.show_err,
                                        LastPass.col, LastPass.desc)

WatchedSize == file_size(current_file_path[1], disk[current_file_path[1]])

\* C3: a growth check that finds the watched source strictly larger than the
\* size recorded by the previous check starts exactly one re-ingestion of it,
\* whatever the busy flag is.
C3_GrowthStartsReload ==
    [][ (wm_FILE_CHANGED(TRUE) /\ is_some(current_file_path)
            /\ WatchedSize > last_file_size)
        => /\ Len(loaders') = Len(loaders) + 1
           /\ loaders'[Len(loaders')] = NewLoader("tail", current_file_path[1], FALSE)
      ]_vars

\* C4: a growth check that finds the size of the watched source unchanged, or
\* that finds no watched source, starts no re-ingestion and changes neither the
\* Store, the raw counter, the index list nor the last recorded size.
C4_NoGrowthNoReload ==
    [][ ((\E meta_ok \in BOOLEAN : wm_FILE_CHANGED(meta_ok))
            /\ (is_some(current_file_path) => WatchedSize = last_file_size))
        => UNCHANGED <<all_items, raw_count, filtered_ids, last_file_size, loaders>>
      ]_vars

\* C4: the owner has taken WM_FILE_CHANGED and runs the growth check on a loaded,
\* watched source whose size is the one it recorded.
C4_Witness ==
    /\ HeadIs("WM_FILE_CHANGED")
    /\ is_some(current_file_path)
    /\ WatchedSize = last_file_size
    /\ last_file_size > 0
    /\ all_items # <<>>

\* An ingestion worker between its start and the end of its Store writes.
Ingesting(w) == w.pc \in {"parse", "write_items", "write_raw", "write_store"}

\* C5: at most one ingestion worker is between its start and the moment it has
\* applied its batch to the Store.
C5_OneIngestionInFlight ==
    Cardinality({i \in 1..Len(loaders) : Ingesting(loaders[i])}) <= 1

\* C6: while some ingestion worker has started and not finished parsing,
\* correlating or writing the Store, is_busy is true.
C6_BusyWhileIngesting ==
    (\E i \in 1..Len(loaders) : Ingesting(loaders[i])) => is_busy

\* A worker that holds its BusyGuard.
HoldsGuard(i) ==
    /\ i \in 1..Len(loaders)
    /\ loaders[i].pc \in {"parse", "write_items", "write_raw", "write_store",
                          "filter_read", "filter_write", "drop"}

\* C7: each ingestion that set is_busy eventually clears it (drops its guard),
\* on every exit path.
C7_BusyEventuallyCleared ==
    \A i \in 1..MaxLoads : HoldsGuard(i) ~> ~HoldsGuard(i)

\* When no ingestion worker is running, is_busy is false.
IdleNotBusy ==
    (\A i \in 1..Len(loaders) : ~InFlight(loaders[i])) => ~is_busy

\* The batches an ingestion can produce: one file, or the files of the folder.
Batches ==
    {LET r == parse_full_logic(ReadFile(p, v, "none")) IN <<r.items, r.raw>> :
        p \in Paths, v \in 1..MaxVer}
    \cup
    {LET r == folder_totals(FolderFiles("logs"), versions, faults,
                            [ok |-> TRUE, items |-> <<>>, raw |-> 0])
     IN <<r.items, r.raw>> :
        versions \in [Paths -> 1..MaxVer], faults \in [Paths -> Faults]}

\* The Stores made of whole batches: at most n batches, one after the other.
RECURSIVE WholeStores(_)
WholeStores(n) ==
    IF n = 0 THEN {<<<<>>, 0>>}
    ELSE LET prev == WholeStores(n - 1)
         IN  prev \cup {<<s[1] \o b[1], s[2] + b[2]>> : s \in prev, b \in Batches}

StoresOfWholeBatches == WholeStores(MaxLoads)

\* C8: a batch becomes visible atomically. In every state the Transaction
\* sequence and the raw-event counter are those of the same whole batches.
C8_BatchAtomic ==
    <<all_items, raw_count>> \in StoresOfWholeBatches

\* The index list is a result of the current predicate and sort spec on the
\* current Store.
ViewFresh ==
    filtered_ids \in filter_compute(all_items, txt_search, show_errors, sort_col, sort_desc)

\* C9: when the owner consumes the load-done notification of an ingestion, no
\* other worker running and no other notification pending, the index list has
\* been recomputed over the Store that ingestion produced.
C9_LoadDoneViewFresh ==
    [][ (/\ wm_LOAD_DONE
         /\ msg_queue' = <<>>
         /\ \A i \in 1..Len(loaders) : ~InFlight(loaders[i])
         /\ \A i \in 1..Len(filters) : filters[i].pc = "done")
        => ViewFresh ]_vars

\* The correlation key of an event: its class when non-empty, otherwise its
\* session id when non-empty, otherwise none.
correlation_key(ev) ==
    IF is_some(ev.class) /\ ev.class[1] # <<>> THEN ev.class
    ELSE IF is_some(ev.acct_session_id) /\ ev.acct_session_id[1] # <<>>
         THEN ev.acct_session_id
         ELSE None

\* C10: the number of Transactions produced equals the number of distinct
\* correlation keys among the events plus the number of keyless events.
C10_TransactionCount ==
    is_some(requests) =>
        Len(requests[1]) =
            Cardinality({correlation_key(events_all[i]) : i \in 1..Len(events_all)} \ {None})
            + Cardinality({i \in 1..Len(events_all) : correlation_key(events_all[i]) = None})

\* The count of C10 with the key parse_full_logic itself selects.
TransactionCountByKeyOpt ==
    is_some(requests) =>
        Len(requests[1]) =
            Cardinality({key_opt(events_all[i]) : i \in 1..Len(events_all)} \ {None})
            + Cardinality({i \in 1..Len(events_all) : key_opt(events_all[i]) = None})

-----------------------------------------------------------------------------
(* Properties of the correlator *)

\* The groups that the rule "class when non-empty, otherwise session id when
\* non-empty, otherwise a group of its own" makes of evs, in first-seen order.
groups_by_correlation_key(evs) ==
    LET key(i) == correlation_key(evs[i])
        starts == {i \in 1..Len(evs) : key(i) = None \/ \A j \in 1..(i - 1) : key(j) # key(i)}
        nth(n) == CHOOSE i \in starts : Cardinality({j \in starts : j < i}) = n - 1
        members(i) == IF key(i) = None THEN <<evs[i]>>
                      ELSE SelectSeq(evs, LAMBDA e : correlation_key(e) = key(i))
    IN  [n \in 1..Cardinality(starts) |-> members(nth(n))]

\* C11: the grouping key of an event is its class when non-empty, otherwise its
\* session id when non-empty, otherwise none (a singleton group); two events are
\* in the same group exactly when they have the same key.
C11_KeyPriority ==
    groups = groups_by_correlation_key(SubSeq(events_all, 1, ev_next))

is_response(e) == unwrap_or(e.packet_type, <<>>) \notin {<<"1">>, <<"4">>}

reason_code_of(e) == unwrap_or(e.reason_code, <<"0">>)

\* C12: reason-overwrite rule. A response with the default reason code "0" (or
\* none) never replaces a response-type and reason recorded with a non-empty
\* reason; a response with another code always replaces them; so a group with
\* a code "16" response ends with the reason of "16" whatever the order.
C12_ReasonOverwrite ==
    /\ [][ (FoldLoop /\ is_response(pg_group[pg_next + 1])) =>
             LET e == pg_group[pg_next + 1]
             IN  /\ (reason_code_of(e) = <<"0">> /\ pg_req.reason # <<>>) =>
                        /\ pg_req'.resp_type = pg_req.resp_type
                        /\ pg_req'.reason = pg_req.reason
                 /\ reason_code_of(e) # <<"0">> =>
                        /\ pg_req'.resp_type = map_packet_type(unwrap_or(e.packet_type, <<>>))
                        /\ pg_req'.reason = map_reason(reason_code_of(e))
         ]_vars
    /\ [](( /\ pg_next = Len(pg_group)
            /\ \E i \in 1..Len(pg_group) :
                  is_response(pg_group[i]) /\ reason_code_of(pg_group[i]) = <<"1", "6">>)
          => pg_req.reason = map_reason(<<"1", "6">>))

\* C12: a folded group in which a reject with code "16" comes before an accept
\* with code "0"; the reason and response-type are those of the reject.
C12_Witness ==
    /\ pg_next = Len(pg_group)
    /\ Len(pg_group) >= 2
    /\ pg_group[1].packet_type = Some(<<"3">>)
    /\ pg_group[1].reason_code = Some(<<"1", "6">>)
    /\ pg_group[2].packet_type = Some(<<"2">>)
    /\ pg_group[2].reason_code = Some(<<"0">>)
    /\ pg_req.reason = map_reason(<<"1", "6">>)
    /\ pg_req.resp_type = STR_ACCESS_REJECT

-----------------------------------------------------------------------------
(* Properties of the query engine *)

\* The pass of SpecFilter has written the index list.
PassWritten == filters # <<>> /\ filters[1].pc \in {"post", "done"}

IndexSet == {filtered_ids[k] : k \in 1..Len(filtered_ids)}

\* C13: with failed-sessions-only set, a Transaction is in the result exactly
\* when its session id is non-empty, some Transaction of the Store with the same
\* session id has the reject response-type, its own response-type is neither
\* accept nor accounting-response, and it passes the text query.
C13_FailedSessionsOnly ==
    (PassWritten /\ filters[1].show_err) =>
        IndexSet =
            {i \in 0..(Len(all_items) - 1) :
                /\ all_items[i + 1].session_id # <<>>
                /\ \E j \in 1..Len(all_items) :
                      /\ all_items[j].session_id = all_items[i + 1].session_id
                      /\ all_items[j].resp_type = STR_ACCESS_REJECT
                /\ all_items[i + 1].resp_type \notin {STR_ACCESS_ACCEPT, STR_ACCOUNTING_RESPONSE}
                /\ matches(all_items[i + 1], to_ascii_lowercase(trim(filters[1].query)))}

\* C13: three Transactions sharing one session id, with response-types accept,
\* reject and accounting-response; the pass has kept the reject only.
C13_Witness ==
    /\ PassWritten
    /\ filters[1].show_err
    /\ filters[1].query = <<>>
    /\ Len(all_items) = 3
    /\ \A i \in 1..3 : all_items[i].session_id = <<"s", "1">>
    /\ all_items[1].resp_type = STR_ACCESS_ACCEPT
    /\ all_items[2].resp_type = STR_ACCESS_REJECT
    /\ all_items[3].resp_type = STR_ACCOUNTING_RESPONSE
    /\ filtered_ids = <<1>>

\* C14: every Transaction produced by folding a group has a non-empty
\* request-type and a non-empty response-type, whatever the group is made of.
C14_TypesNonEmpty ==
    pg_next = Len(pg_group) => (pg_req.req_type # <<>> /\ pg_req.resp_type # <<>>)


\* The loader has left its parse step and has not finished.
PastParse(w) == w.pc \notin {"guard", "parse", "done"}

\* C15: a file whose last record is cut off before its end tag is still
\* ingested with success: every file or tail load that met such a file
\* has a successful parse result.
C15_UnterminatedSoftSuccess ==
    \A i \in 1..Len(loaders) :
        ( /\ loaders[i].kind \in {"file", "tail"}
          /\ PastParse(loaders[i])
          /\ loaders[i].fault[loaders[i].path] = "truncated" ) => loaders[i].res.ok

\* Every source of the load could not be opened or read.
SourceUnreadable(w) ==
    /\ PastParse(w)
    /\ IF w.kind = "folder"
       THEN /\ FolderFiles(w.path) # <<>>
            /\ \A k \in 1..Len(FolderFiles(w.path)) :
                   w.fault[FolderFiles(w.path)[k]] = "unreadable"
       ELSE w.fault[w.path] = "unreadable"

\* C16: a load whose source cannot be read never reaches a step that
\* writes the store, and the notification it posts is WM_LOAD_ERROR, for
\* file open, tail reload and folder open alike.
C16_UnreadableAborts ==
    /\ [](\A i \in 1..Len(loaders) :
            SourceUnreadable(loaders[i]) =>
                loaders[i].pc \in {"drop", "notify"})
    /\ [][ \A i \in 1..MaxLoads :
             (LoaderNotify(i) /\ SourceUnreadable(loaders[i])) =>
                 msg_queue'[Len(msg_queue')].type = "WM_LOAD_ERROR" ]_vars


\* The fragments of the file that decode to an event, in file order.
decoded_only(blobs) == SelectSeq(blobs, LAMBDA b : b # None)

\* C17: fragments that fail to decode never abort the batch: the call
\* succeeds, its raw count is the number of fragments, and its Transactions
\* are those of the same call on the decoded fragments alone.
C17_MalformedSkipped ==
    is_some(parse_result) =>
        /\ parse_result[1].ok
        /\ parse_result[1].raw = Len(event_blobs)
        /\ parse_result[1].items =
               parse_full_logic([readable |-> TRUE, truncated |-> FALSE,
                                 blobs |-> decoded_only(event_blobs)]).items

\* A file of three fragments whose first one is malformed has been parsed
\* into at least one Transaction.
C17_Witness ==
    /\ is_some(parse_result)
    /\ Len(event_blobs) = 3
    /\ event_blobs[1] = None
    /\ event_blobs[3] # None
    /\ parse_result[1].raw = 3
    /\ parse_result[1].items # <<>>


\* The load is not an append, every source of it was read to its end, and
\* no record was decoded from it.
ZeroRecords(w) ==
    /\ PastParse(w)
    /\ ~w.is_append
    /\ w.res.ok
    /\ w.res.items = <<>>
    /\ IF w.kind = "folder"
       THEN \A k \in 1..Len(FolderFiles(w.path)) :
                w.fault[FolderFiles(w.path)[k]] = "none"
       ELSE w.fault[w.path] = "none"

\* C18: a load that is not an append and decodes zero records goes on from
\* its parse to the step that writes the store, that step leaves the store
\* empty, and the notification it posts is WM_LOAD_DONE.
C18_EmptyResultReplaces ==
    [][ \A i \in 1..MaxLoads :
          /\ (LoaderParse(i) /\ ZeroRecords(loaders'[i])) =>
                 loaders'[i].pc \in {"write_items", "write_store"}
          /\ ((LoaderWriteItems(i) \/ LoaderWriteStore(i)) /\ ZeroRecords(loaders[i])) =>
                 all_items' = <<>>
          /\ (LoaderNotify(i) /\ ZeroRecords(loaders[i])) =>
                 msg_queue'[Len(msg_queue')].type = "WM_LOAD_DONE" ]_vars


\* C19: every index of the list one query pass computed is a position of
\* the snapshot the pass read: at least 0 and less than the snapshot's
\* length. The store does not change during the pass, so the snapshot is
\* all_items.
C19_PassIndicesValid ==
    \A i \in 1..Len(filters) :
        filters[i].pc \in {"write", "post"} =>
            \A k \in 1..Len(filters[i].ids) :
                filters[i].ids[k] \in 0..(Len(all_items) - 1)

\* A pass over a store of three Transactions kept all of them and put the
\* last position first.
C19_Witness ==
    /\ Len(all_items) = 3
    /\ filters[1].pc = "write"
    /\ Len(filters[1].ids) = 3
    /\ filters[1].ids[1] = 2


\* Some pass has published its index list.
Published == \E j \in 1..Len(filters) : filters[j].pc \in {"post", "done"}

sort_key(it, col) ==
    CASE col = "Timestamp" -> it.timestamp
      [] col = "Type" -> it.req_type
      [] col = "Server" -> it.server
      [] col = "ApIp" -> it.ap_ip
      [] col = "ApName" -> it.ap_name
      [] col = "Mac" -> it.mac
      [] col = "User" -> it.user
      [] col = "ResponseType" -> it.resp_type
      [] col = "Reason" -> IF it.reason # <<>> THEN it.reason ELSE it.resp_type
      [] col = "Session" -> it.session_id

\* The list is ordered by sort_key in the direction asked for, and two
\* neighbours with equal sort_key are in the order the build's sort leaves
\* equal elements in: no other field decides between them.
OrderedBySortKey(ids, items, col, desc) ==
    \A k \in 1..(Len(ids) - 1) :
        LET c == cmp(sort_key(items[ids[k] + 1], col), sort_key(items[ids[k + 1] + 1], col))
            d == IF desc THEN 0 - c ELSE c
        IN  d < 0 \/ (d = 0 /\ IF tie_break = "kept" THEN ids[k] < ids[k + 1]
                                ELSE ids[k] > ids[k + 1])

\* C21: under the "Reason" key a Transaction is compared by its reason,
\* or by its response-type when its reason is empty; under every other key
\* by the field of the key alone.
C21_ReasonFallback ==
    PassWritten => OrderedBySortKey(filtered_ids, all_items, filters[1].col, filters[1].desc)

\* Sorted ascending by "Reason", a Transaction with an empty reason and
\* response-type Access-Accept comes right before one with an empty reason
\* and response-type Access-Reject that was before it in the Store.
C21_Witness ==
    /\ PassWritten
    /\ filters[1].col = "Reason"
    /\ ~filters[1].desc
    /\ Len(filtered_ids) >= 2
    /\ filtered_ids[1] > filtered_ids[2]
    /\ all_items[filtered_ids[1] + 1].reason = <<>>
    /\ all_items[filtered_ids[2] + 1].reason = <<>>
    /\ all_items[filtered_ids[1] + 1].resp_type = STR_ACCESS_ACCEPT
    /\ all_items[filtered_ids[2] + 1].resp_type = STR_ACCESS_REJECT
    /\ tie_break = "kept"


\* The Transaction at 0-based position i passes the failed-sessions flag
\* and the text query of the pass.
survives(items, i, query, show_err) ==
    LET it == items[i + 1]
    IN  /\ show_err =>
              /\ it.session_id # <<>>
              /\ \E j \in 1..Len(items) :
                     /\ items[j].session_id = it.session_id
                     /\ items[j].resp_type = STR_ACCESS_REJECT
              /\ it.resp_type \notin {STR_ACCESS_ACCEPT, STR_ACCOUNTING_RESPONSE}
        /\ matches(it, to_ascii_lowercase(trim(query)))

\* C22: the result of a pass holds every index that survives the filter,
\* each once, and no other index; along it the sort key never decreases
\* when ascending and never increases when descending.
C22_ResultExactAndSorted ==
    PassWritten =>
        /\ IndexSet = {i \in 0..(Len(all_items) - 1) :
                          survives(all_items, i, filters[1].query, filters[1].show_err)}
        /\ \A k, l \in 1..Len(filtered_ids) : k # l => filtered_ids[k] # filtered_ids[l]
        /\ \A k \in 1..(Len(filtered_ids) - 1) :
              LET c == cmp(sort_key(all_items[filtered_ids[k] + 1], filters[1].col),
                           sort_key(all_items[filtered_ids[k + 1] + 1], filters[1].col))
              IN  IF filters[1].desc THEN c >= 0 ELSE c <= 0

\* A descending pass over three Transactions dropped one of them and put a
\* Transaction with a greater sort key, which was later in the Store, first.
C22_Witness ==
    /\ PassWritten
    /\ filters[1].desc
    /\ Len(all_items) = 3
    /\ Len(filtered_ids) = 2
    /\ filtered_ids[1] > filtered_ids[2]
    /\ cmp(sort_key(all_items[filtered_ids[1] + 1], filters[1].col),
           sort_key(all_items[filtered_ids[2] + 1], filters[1].col)) > 0


\* A string with every letter in lower case, the letters outside ASCII too.
lower_case(s) ==
    [i \in 1..Len(s) |-> IF s[i] = "É" THEN "é" ELSE CharLower(s[i])]

\* The query matches, ignoring letter case, as a substring of one of the
\* eight searched fields.
text_matches(it, query) ==
    \E f \in {it.user, it.mac, it.ap_ip, it.ap_name, it.server, it.reason,
              it.req_type, it.resp_type} :
        contains(lower_case(f), lower_case(query))

\* C23: with a non-empty text query a Transaction passes exactly when the
\* query matches, ignoring letter case, as a substring of its user, MAC,
\* client IP, client name, server, reason, request-type or response-type
\* (not its timestamp or session id); with an empty query every
\* Transaction passes.
C23_TextStage ==
    PassWritten =>
        IndexSet = {i \in 0..(Len(all_items) - 1) :
                       filters[1].query = <<>> \/ text_matches(all_items[i + 1], filters[1].query)}


\* C24: a change of the search text launches no pass and arms the timer;
\* the timer fires only while armed, is disarmed by firing, and launches
\* one pass, with the text as it is then. So a burst of changes, each made
\* before the timer armed by the one before has fired, gets one pass, after
\* its last change and with its last text.
C24_Debounce ==
    [][ /\ (\E text \in Queries : en_change(text)) =>
               (filters' = filters /\ search_timer')
        /\ wm_timer =>
               /\ search_timer /\ ~search_timer'
               /\ Len(filters') = Len(filters) + 1
               /\ filters'[Len(filters')].query = txt_search
               /\ filters'[Len(filters')].pc = "read"
               /\ txt_search' = txt_search ]_vars

\* The text was changed and changed back before the timer fired, and the
\* one pass launched since is the timer's, with the text as it is now.
C24_Witness ==
    /\ Len(filters) = 1
    /\ filters[1].query = <<>>
    /\ filters[1].col = "Timestamp" /\ filters[1].desc /\ ~filters[1].show_err
    /\ sort_col = "Timestamp" /\ sort_desc /\ ~show_errors
    /\ txt_search = <<>>
    /\ ~search_timer


\* C25: an ingestion worker posts one notification, WM_LOAD_DONE or
\* WM_LOAD_ERROR, as its last step, after its writes of the store, and every
\* worker that was started gets to that step; a query pass posts one
\* WM_FILTER_DONE as its last step, after it has written the index list, and
\* every pass that was started gets to that step.
C25_OneNotification ==
    /\ [][ \A i \in 1..MaxLoads :
             /\ LoaderNotify(i) =>
                    /\ Len(msg_queue') = Len(msg_queue) + 1
                    /\ msg_queue'[Len(msg_queue')].type \in {"WM_LOAD_DONE", "WM_LOAD_ERROR"}
                    /\ loaders'[i].pc = "done"
             /\ (LoaderStep(i) /\ ~LoaderNotify(i)) => msg_queue' = msg_queue ]_vars
    /\ [][ \A i \in 1..MaxPasses :
             /\ FilterPost(i) =>
                    /\ msg_queue' = Append(msg_queue, [type |-> "WM_FILTER_DONE", from |-> "filter"])
                    /\ filters'[i].pc = "done"
             /\ (FilterStep(i) /\ ~FilterPost(i)) => msg_queue' = msg_queue ]_vars
    /\ \A i \in 1..MaxLoads :
           (i <= Len(loaders) /\ InFlight(loaders[i])) ~>
               (owner = "dead" \/ (i <= Len(loaders) /\ loaders[i].pc = "done"))
    /\ \A i \in 1..MaxPasses :
           (i <= Len(filters) /\ filters[i].pc # "done") ~>
               (owner = "dead" \/ (i <= Len(filters) /\ filters[i].pc = "done"))


\* Every file the load read was read to its end.
CleanRead(w) == \A p \in Paths : w.fault[p] = "none"

\* C26: the step of an ingestion that writes the Transactions leaves the
\* store equal to what it was followed by the batch when the ingestion is
\* an append, and equal to the batch otherwise; the step that writes the
\* raw counter adds the batch's raw count, or sets it, likewise; a tail
\* reload is never an append and sets both; and every ingestion that read
\* its source goes through these steps, unless it is an append of nothing.
C26_AppendVersusReplace ==
    [][ \A i \in 1..MaxLoads :
          /\ LoaderWriteItems(i) =>
                 all_items' = IF loaders[i].is_append
                              THEN all_items \o loaders[i].res.items
                              ELSE loaders[i].res.items
          /\ LoaderWriteRaw(i) =>
                 raw_count' = IF loaders[i].is_append
                              THEN raw_count + loaders[i].res.raw
                              ELSE loaders[i].res.raw
          /\ LoaderWriteStore(i) =>
                 /\ loaders[i].kind = "tail" /\ ~loaders[i].is_append
                 /\ all_items' = loaders[i].res.items
                 /\ raw_count' = loaders[i].res.raw
          /\ ( /\ LoaderParse(i)
               /\ loaders'[i].res.ok /\ CleanRead(loaders'[i])
               /\ ~(loaders'[i].is_append /\ loaders'[i].res.items = <<>>) ) =>
                 loaders'[i].pc \in {"write_items", "write_store"} ]_vars


\* C27: in no state is the owner thread waiting to acquire a lock that a
\* worker holds.
C27_OwnerNeverWaits == \A row \in 0..(MaxRows - 1) : owner # Waiting(row)


\* The highlight category a response packet-type stands for: accept is
\* success, reject is failure, any other response type is none.
highlight_of(e) ==
    CASE unwrap_or(e.packet_type, <<>>) = <<"2">> -> Some(<<188, 255, 188>>)
      [] unwrap_or(e.packet_type, <<>>) = <<"3">> -> Some(<<255, 188, 188>>)
      [] OTHER -> None

\* C28: at every point of the folding of a group the Transaction's highlight
\* category is the one given by the last response event folded so far, and
\* none when no response event has been folded.
C28_HighlightOfLastResponse ==
    LET responses == SelectSeq(SubSeq(pg_group, 1, pg_next), is_response)
    IN  pg_req.bg_color = IF responses = <<>> THEN None
                          ELSE highlight_of(responses[Len(responses)])


\* C29: once a group without any request event has been folded, the
\* Transaction's correlation-class is the class field of the group's first
\* event.
C29_ClassFallsBackToFirstEvent ==
    ( /\ pg_group # <<>>
      /\ pg_next = Len(pg_group)
      /\ \A k \in 1..Len(pg_group) : is_response(pg_group[k]) ) =>
        pg_req.class_id = unwrap_or(pg_group[1].class, <<>>)


\* C30: every request event folded sets the user to the event's SAM account
\* when present, else to its user-name when present, else to the unknown-user
\* marker; and sets the client name to the friendly name when present, else
\* to the NAS-identifier when present, else leaves it as it was.
C30_UserAndClientName ==
    [][ FoldLoop =>
          LET event == pg_group[pg_next + 1]
          IN  ~is_response(event) =>
                /\ pg_req'.user =
                       IF event.sam_account # None THEN event.sam_account[1]
                       ELSE IF event.user_name # None THEN event.user_name[1]
                       ELSE STR_UNKNOWN_USER
                /\ pg_req'.ap_name =
                       IF event.client_friendly_name # None
                       THEN event.client_friendly_name[1]
                       ELSE IF event.ap_name # None THEN event.ap_name[1]
                       ELSE pg_req.ap_name ]_vars

\* A request with both user fields and both client-name fields has been
\* folded, then a request with none of them: the user is the marker and the
\* client name is still the first request's friendly name.
C30_Witness ==
    /\ pg_next = 2
    /\ ~is_response(pg_group[1]) /\ ~is_response(pg_group[2])
    /\ pg_group[1].sam_account # None /\ pg_group[1].user_name # None
    /\ pg_group[1].client_friendly_name # None /\ pg_group[1].ap_name # None
    /\ pg_group[2].sam_account = None /\ pg_group[2].user_name = None
    /\ pg_group[2].client_friendly_name = None /\ pg_group[2].ap_name = None
    /\ pg_req.user = STR_UNKNOWN_USER
    /\ pg_req.ap_name = STR_FRIENDLY


\* C31: every value posted while the file is read lies in 0..50 and is
\* greater than every value posted before it, and every value posted by a
\* decoder lies in 50..100.
C31_ProgressInRange ==
    [][ /\ ReadEvent =>
            \A k \in (Len(posted) + 1)..Len(posted') :
                /\ posted'[k] \in 0..50
                /\ \A j \in 1..Len(posted) : posted[j] < posted'[k]
        /\ \A t \in 1..NumDecoders : DecodePost(t) =>
            \A k \in (Len(posted) + 1)..Len(posted') : posted'[k] \in 50..100 ]_vars

\* A file of several fragments has been read and decoded; the extraction
\* posted two values and the decoders posted values up to 100.
C31_Witness ==
    /\ ExtractionDone /\ total_blobs >= 2
    /\ processed_count = total_blobs
    /\ \A t \in 1..NumDecoders : decoders[t].pc = "idle"
    /\ Len(posted) >= 4
    /\ posted[1] < posted[2] /\ posted[2] <= 50
    /\ \E k \in 3..Len(posted) : posted[k] = 100


\* C39: once a file with at least one fragment has been read and decoded and
\* the owner has handled every progress report, the last report it handled
\* was 100.
C39_LastProgressIsComplete ==
    ( /\ ExtractionDone /\ total_blobs >= 1
      /\ processed_count = total_blobs
      /\ \A t \in 1..NumDecoders : decoders[t].pc = "idle"
      /\ delivered = Len(posted) ) =>
        /\ posted # <<>>
        /\ posted[Len(posted)] = 100


\* C32: the sort spec starts as (Timestamp, descending); a click on the
\* column that is the sort key flips the direction and keeps the key; a click
\* on another column makes it the key, ascending; and every click launches
\* exactly one query pass, with the sort spec as the click left it.
C32_SortSpecMachine ==
    /\ sort_col = "Timestamp" /\ sort_desc = TRUE
    /\ [][ \A col \in ClickCols : on_lst_lvn_column_click(col) =>
              /\ sort_col' = col
              /\ sort_desc' = IF sort_col = col THEN ~sort_desc ELSE FALSE
              /\ Len(filters') = Len(filters) + 1
              /\ SubSeq(filters', 1, Len(filters)) = filters
              /\ filters'[Len(filters')].col = sort_col'
              /\ filters'[Len(filters')].desc = sort_desc' ]_vars

\* Two clicks on Reason: the first made it the key, ascending, the second
\* flipped the direction; each launched a pass.
C32_Witness ==
    /\ sort_col = "Reason" /\ sort_desc = TRUE
    /\ Len(filters) = 2
    /\ filters[1].col = "Reason" /\ filters[1].desc = FALSE
    /\ filters[2].col = "Reason" /\ filters[2].desc = TRUE


\* C33: pressing F5 while a watched path is recorded leaves the owner thread
\* running, and starts a tail re-ingestion when the source is non-empty and
\* no ingestion is busy.
C33_ForcedRefreshReturns ==
    [][ (wm_key_down_F5 /\ is_some(current_file_path)) =>
          /\ owner' = "running"
          /\ ( /\ file_size(current_file_path[1], disk[current_file_path[1]]) > 0
               /\ ~is_busy ) =>
                 loaders' = Append(loaders, NewLoader("tail", current_file_path[1], FALSE)) ]_vars


\* C34: a growth check that starts no re-ingestion leaves last_file_size as
\* it was.
C34_SizeKeptWithoutReload ==
    [][ \A meta_ok \in BOOLEAN :
          (wm_FILE_CHANGED(meta_ok) /\ loaders' = loaders) =>
              last_file_size' = last_file_size ]_vars


\* A worker is in a synchronous SendMessage to the owner's window.
Sending(i) == At(i, "parse") \/ At(i, "notify")

\* C35: no thread waits forever: an owner thread waiting for a lock gets it,
\* and a worker's synchronous message to the owner returns.
C35_NoDeadlock ==
    /\ (owner = "stuck") ~> (owner # "stuck")
    /\ \A i \in 1..MaxLoads : Sending(i) ~> (owner = "dead" \/ ~Sending(i))


\* The Transactions of one file alone, at some length it has had, or none.
FromSource(items, path) ==
    \/ items = <<>>
    \/ \E ver \in 1..MaxVer : items = parse_full_logic(ReadFile(path, ver, "none")).items

\* C36: a tail re-ingestion replaces the store only when what the store holds
\* came from the watched file alone.
C36_TailReplacesOwnSourceOnly ==
    [][ \A i \in 1..MaxLoads :
          LoaderWriteStore(i) => FromSource(all_items, loaders[i].path) ]_vars


\* C37: when no ingestion is in flight the raw-event counter is at least the
\* number of Transactions in the store.
C37_RawCountCoversStore ==
    (\A i \in 1..Len(loaders) : ~InFlight(loaders[i])) => raw_count >= Len(all_items)


\* C38: once a group has been folded, a failure highlight goes with the
\* response-type Access-Reject and a success highlight with Access-Accept.
C38_HighlightAgreesWithResponse ==
    pg_next = Len(pg_group) =>
        /\ pg_req.bg_color = Some(<<255, 188, 188>>) => pg_req.resp_type = STR_ACCESS_REJECT
        /\ pg_req.bg_color = Some(<<188, 255, 188>>) => pg_req.resp_type = STR_ACCESS_ACCEPT


\* The row shown at `row` has the failure highlight.
is_failure_row(row) ==
    all_items[filtered_ids[row + 1] + 1].bg_color = Some(<<255, 188, 188>>)

\* The k-th row met when going from the selection in the direction, with
\* wrap-around; with nothing selected, going forward starts at the first row
\* and going back starts at the last.
nth_row_from_selection(k, direction) ==
    LET len == Len(filtered_ids)
        from == IF selected # None THEN selected[1]
                ELSE IF direction > 0 THEN -1 ELSE 0
    IN  (from + k * direction + len * (k + 1)) % len

\* C40: error navigation selects the nearest row in the direction, with
\* wrap-around, whose Transaction has the failure highlight, and leaves the
\* selection as it is when no row has it.
C40_NearestFailureRow ==
    [][ \A direction \in {1, -1} : navigate_error(direction) =>
          LET hits == {k \in 1..Len(filtered_ids) :
                          is_failure_row(nth_row_from_selection(k, direction))}
          IN  selected' =
                IF hits = {} THEN selected
                ELSE Some(nth_row_from_selection(
                             CHOOSE k \in hits : \A j \in hits : k <= j, direction)) ]_vars

====
